---- MODULE Spec2Model ----
(***************************************************************************)
(* A model of the gossip node of denizetkar/gossip-protocol.               *)
(*                                                                         *)
(* Spec   : the Central Controller (src/src/core/message.go) with its      *)
(*          subtasks: the dial and probe goroutines it spawns, the P2P and *)
(*          API endpoints and listeners (src/src/core/peer.go,             *)
(*          message.go), and the Membership Controller and the Gossiper    *)
(*          seen through the messages they exchange with it.               *)
(***************************************************************************)
EXTENDS Integers, Sequences, FiniteSets, TLC

(***************************************************************************)
(* Bounds.                                                                 *)
(***************************************************************************)
\* Addresses of remote peers the Membership Controller can learn about.
Peers == {"p1", "p2", "p3"}
\* The peer given as bootstrapper on the command line.
Bootstrapper == "p1"
\* Remote addresses of peers that connect to the P2P listener.
InPeers == {"i1", "i2", "i3", "i4", "i5", "i6", "i7"}
\* Addresses of API clients that connect to the API listener.
Clients == {"a1", "a2"}
\* A client that connects when the others have.
LateClients == {"a3"}
\* A small value of maxPeers, for which the view holds 3 peers.
SmallMaxPeers == 81
\* A value of maxPeers for which the view holds 2 peers, fewer than there
\* are addresses.
TinyMaxPeers == 16
\* Capacity of the Central Controller's MsgInQueue (inQueueSize in the code).
InQueueCap == 3
\* Capacity of the queues of the Membership Controller and of the Gossiper
\* (outQueueSize in the code).
OutQueueCap == 1
\* Number of rounds or probes of the Membership Controller in one behaviour.
MaxMCSteps == 1
\* Number of requests of the Gossiper in one behaviour.
MaxGSteps == 1
\* Number of events caused by remote peers and API clients in one behaviour.
MaxNetSteps == 1
\* Largest number of peers the Gossiper asks for in one request.
MaxNum == 2
MaxCloseNetSteps == 2
\* Gossip items and peers in the model of the Gossiper.
GItems == {"x", "y"}
\* The remote peers named in the messages to the Membership Controller.
MembershipPeers == {"p1", "p2", "p3"}
GossipPeers == {"p1", "p2"}
\* Number of messages the Central Controller forwards to the Gossiper, and
\* number of gossip rounds, in one behaviour of the Gossiper.
MaxGossipInputs == 3
MaxGossipRounds == 2
MaxValidationInputs == 5
\* The number of candidates given to the peer sampler.
MaxFed == 3
\* The number of connections that arrive at the listeners.
MaxIncoming == 10
\* The calls of Close() on one endpoint that are told apart.
MaxCloseCalls == 2
\* The calls of Read and of Write on the secure connection.
MaxSecureCalls == 3
\* The direct calls of Handshake on the secure connection.
MaxHandshakeCalls == 1
\* How many commands the history of a dial or a probe keeps.
MaxLogged == 2
\* Steps of the Membership Controller where dials and probes are studied.
MaxDialCmds == 3
\* Messages forwarded to the Gossiper where its bounded cache is studied.
MaxCacheInputs == 3
\* Membership rounds, and push requests and pull replies between them, where
\* the update phase is studied.
MaxUpdateRounds == 2
MaxUpdateInputs == 4
\* Decodes of a P2P reader in one behaviour, and the failed ones counted.
MaxReadSteps == 3
MaxDecodeErrs == 2
\* Steps of the Membership Controller where the P2P reader is studied.
MaxReadCmds == 2
\* Steps of the Membership Controller where the two views are compared.
MaxMirrorCmds == 3
\* RSA keys of remote peers, and those whose identity is in the trust directory.
HandshakeKeys == {"k1", "k2"}
TrustedKeys == {"k1"}
\* Number of membership rounds and number of messages the Central
\* Controller forwards to the Membership Controller in one behaviour of
\* the Membership Controller.
MaxMembershipRounds == 2
MaxMembershipInputs == 3
\* The validity window of a push request and the threshold of its proof of
\* work, in the units of the ages and hash values of the requests that
\* arrive.
validityDuration == 1
PoWThreshold == 1
PushAges == {-2, 1, 2}
PushHashVals == {1, 2}
\* The Gossiper's configuration where the degree is not the subject: degree
\* and max_ttl of the user, and the value of bMax and cMax.
DefaultDegree == 1
maxTTL == 2
loglogN == 2
\* The degrees NewCentralController admits (message.go:1106), and the
\* largest threshold looked for.
MaxDegree == 10
MaxLogLogN == 5
\* Messages to and rounds of the Gossiper where every degree is tried.
MaxMedianInputs == 3
MaxMedianRounds == 2

(***************************************************************************)
(* Program constants.                                                      *)
(***************************************************************************)
\* maxPeers (message.go:1051).
maxPeers == 100000000
\* alpha and beta of message.go:1052, in percent.
alphaPercent == 45
betaPercent == 45

VARIABLES
    \* ---- Central Controller (type CentralController, message.go:998) ----
    msgInQueue,               \* MsgInQueue, a FIFO channel
    viewList,                 \* outgoing peers: peer -> PeerInfoCentral
    awaitingRemovalViewList,  \* outgoing peers awaiting removal
    activelyCreatedPeers,     \* peer -> isToBeRemoved, dial in flight
    activelyProbedPeers,      \* peer -> addPeer, probe in flight
    incomingViewList,         \* incoming peers: peer -> PeerInfoCentral
    apiClients,               \* API clients: client -> APIClientInfoCentral
    state,                    \* CentralControllerState
    subs,                     \* which submodule pointers are non-nil
    ccStatus,                 \* "running", "done" (graceful), "crashed", "killed"
    \* ---- goroutines spawned by the Central Controller ----
    dialing,                  \* peers with a NewP2PEndpoint goroutine in flight
    probing,                  \* peer -> number of probe goroutines in flight
    ep,                       \* endpoint objects and their two goroutines
    listeners,                \* state of the API and the P2P listener goroutines
    watchdog,                 \* the closureTimeout timer of closeHandler
    \* ---- Membership Controller, as seen by the Central Controller ----
    mcStatus, mcView, mcInQueue, mcPending, viewCap,
    \* ---- Membership Controller (type MembershipController) ----
    mc,                       \* the sets of the MembershipController struct
    peerSampler,              \* one PeerSampler (membership_controller.go:41-46)
    fed,                      \* history: the candidates given to peerSampler, in order
    \* ---- secure connection (type SecureConn, secureconn.go:16-36) ----
    sc,                       \* one SecureConn and what went over its TCP connection
    validated,                \* history: the last remote record validated, and the verdict
    cmdLog,                   \* history: peer -> the commands taken during its dial or probe
    lastRound,                \* history: what the last completed membership round held
    handed,                   \* history: peer -> lists lent and not released, promotions
    \* ---- Gossiper, as seen by the Central Controller ----
    gStatus, gInQueue, gBorrowed,
    \* ---- Gossiper (type Gossiper, gossiper.go:44-79) ----
    gossiper,                 \* the maps and sets of the Gossiper struct
    lent,                     \* history: peer list -> times lent and not released
    promoted,                 \* history: items the last round's median rule moved to C
    invalidated,              \* history: item marked invalid -> rounds completed since
    \* ---- environment ----
    sigint,                   \* the user's interrupt has been delivered
    budget,                   \* environment steps left, per kind
    \* ---- history ----
    lastDeleted               \* facts recorded when an outgoing record is deleted

ccVars  == <<msgInQueue, viewList, awaitingRemovalViewList, activelyCreatedPeers,
             activelyProbedPeers, incomingViewList, apiClients, state, subs, ccStatus>>
taskVars == <<dialing, probing, ep, listeners, watchdog>>
mcVars  == <<mcStatus, mcView, mcInQueue, mcPending, viewCap, mc, peerSampler, fed, sc, validated, lastRound, handed, cmdLog>>
gVars   == <<gStatus, gInQueue, gBorrowed, gossiper, lent, promoted, invalidated>>
envVars == <<sigint, budget>>
vars == <<ccVars, taskVars, mcVars, gVars, envVars, lastDeleted>>

(***************************************************************************)
(* Helpers on finite maps.                                                 *)
(***************************************************************************)
EmptyMap == <<>>
Put(m, k, v) == [x \in (DOMAIN m) \cup {k} |-> IF x = k THEN v ELSE m[x]]
Remove(m, k) == [x \in (DOMAIN m) \ {k} |-> m[x]]
Min(a, b) == IF a < b THEN a ELSE b
Max(a, b) == IF a > b THEN a ELSE b

\* viewListCap := max(1, floor(maxPeers^0.25)) (message.go:1113).
ViewListCapOf(n) ==
    Max(1, CHOOSE v \in 0..200 : v * v * v * v <= n /\ (v + 1) * (v + 1) * (v + 1) * (v + 1) > n)

\* All sequences that enumerate the finite set S once each: the orders in
\* which a Go map or set can be iterated.
RECURSIVE Orderings(_)
Orderings(S) ==
    IF S = {} THEN {<<>>}
    ELSE UNION {{<<x>> \o s : s \in Orderings(S \ {x})} : x \in S}

(***************************************************************************)
(* Internal messages (type InternalMessage, message.go:182-185).  A        *)
(* payload is modelled by its content: id is the peer, client or endpoint  *)
(* concerned, flag a boolean field, ptr whether the payload is a pointer   *)
(* to the payload struct rather than the struct itself, list a peer list,  *)
(* num a count.                                                            *)
(***************************************************************************)
Msg(t, id, flag) ==
    [type |-> t, id |-> id, flag |-> flag, ptr |-> FALSE, list |-> {}, num |-> 0]
PtrMsg(t, id, flag) ==
    [type |-> t, id |-> id, flag |-> flag, ptr |-> TRUE, list |-> {}, num |-> 0]
ListMsg(t, list, num) ==
    [type |-> t, id |-> "none", flag |-> FALSE, ptr |-> FALSE, list |-> list, num |-> num]

\* centralControllerStopMessages (message.go:964-971): the message types
\* the Run loop still handles once isStopping is set.
centralControllerStopMessages ==
    {"PeerRemoveMSG", "MembershipCrashedMSG", "MembershipClosedMSG",
     "GossiperCrashedMSG", "GossiperClosedMSG",
     "APIListenerCrashedMSG", "APIListenerClosedMSG", "APIEndpointCreatedMSG",
     "APIEndpointCrashedMSG", "APIEndpointClosedMSG",
     "P2PListenerCrashedMSG", "P2PListenerClosedMSG", "IncomingP2PCreatedMSG",
     "P2PEndpointCrashedMSG", "P2PEndpointClosedMSG", "OutgoingP2PCreatedMSG",
     "CentralCrashMSG"}

\* PeerInfoCentral as created by the *CreatedHandlers (message.go:2078-2084).
NewPeerInfo ==
    [usageCounter |-> 0, readerState |-> "RUNNING", writerState |-> "RUNNING",
     hasCrashed |-> FALSE]
\* PeerState.HaveBothStopped (peer.go:313-315).
HaveBothStopped(info) == info.readerState = "STOPPED" /\ info.writerState = "STOPPED"

\* An endpoint object: its connection ("none" before creation, "nil" when
\* the dial or handshake failed), its reader and writer goroutines
\* ("idle" before they are started), whether Close() has run (closeOnce),
\* the CLOSE messages put on its MsgInQueue, the times its sigCh was closed,
\* and as history the calls of Close(), counted up to MaxCloseCalls, and the
\* decodes of its reader that failed without a timeout, up to MaxDecodeErrs.
\* A reader is "sig" where it receives from sigCh.
NoEndpoint ==
    [conn |-> "none", reader |-> "idle", writer |-> "idle", closed |-> FALSE,
     closeMsgs |-> 0, sigClosed |-> 0, closeCalls |-> 0, decodeErrs |-> 0]
EndpointIds == Peers \cup InPeers \cup Clients \cup LateClients

\* alphaSize, betaSize, gammaSize (membership_controller.go:265-267).
alphaSize(V) == (alphaPercent * V) \div 100
betaSize(V) == (betaPercent * V) \div 100
LooseGammaSize(V) == V + 1
gammaSize(V) == V - alphaSize(V) - betaSize(V)

NoDeletion == [peer |-> "none"]

\* MinWiseIndependentPermutation.Permute (membership_controller.go:144-163):
\* the AES key of the permuter fixes an injective map from the peers to
\* their permuted values, kept here as the ranks 1..|Peers|.
Permuters ==
    {f \in [Peers -> 1..Cardinality(Peers)] : \A a, b \in Peers : f[a] = f[b] => a = b}
Permute(permuter, peer) == permuter[peer]

\* NewPeerSampler (membership_controller.go:167-172).
NewPeerSampler(permuter) == [permuter |-> permuter, peer |-> "nil", peerPVal |-> 0]

\* Client and SecureServer (securecomm.go:50-75): a SecureConn before its
\* handshake.  hsOut counts the handshake messages and appOut, appIn the
\* encrypted application messages written to and read from the TCP
\* connection; reads, writes and failed count, as history, the calls of Read
\* and Write and those that returned an error, hsCalls the direct calls of
\* Handshake and hsRuns the executions of handshakeFn.
NewSecureConn(isClient) ==
    [isClient |-> isClient, handShakeCompleted |-> 0, masterKey |-> "nil",
     hsOut |-> 0, appOut |-> 0, appIn |-> 0, reads |-> 0, writes |-> 0, failed |-> 0,
     hsCalls |-> 0, hsRuns |-> 0]

NoValidation == [side |-> "none"]

\* NewMembershipController (membership_controller.go:228-270) for the
\* maxPeers n.  The sampleList maps each sampled peer to the number of peer
\* samplers in its set, the pushProbability is "zero" or "positive".
NewMembershipController(n) ==
    [pushRequests |-> {}, pullReplies |-> {}, pullPeers |-> {}, sampleList |-> EmptyMap,
     sampleListRemainingCap |-> n \div (ViewListCapOf(n) * ViewListCapOf(n)),
     pushProbability |-> "zero"]

\* b^e for small b and e.
RECURSIVE Pow(_, _)
Pow(b, e) == IF e = 0 THEN 1 ELSE b * Pow(b, e - 1)

\* b^e >= n, without computing b^e.
RECURSIVE PowAtLeast(_, _, _)
PowAtLeast(b, e, n) ==
    IF n <= 1 THEN TRUE
    ELSE IF e = 0 THEN FALSE
    ELSE PowAtLeast(b, e - 1, (n + b - 1) \div b)

\* loglogN of NewGossiper (gossiper.go:85-87) for the degree d: with
\* m = max(2, d), max(1, ceil(log2(log2(maxPeers) / log2(m)) / log2(m))) is
\* the least k >= 1 with m^(m^k) >= maxPeers.
LogLogNOf(d) ==
    LET m == Max(2, d) IN
    CHOOSE k \in 1..MaxLogLogN :
        /\ PowAtLeast(m, Pow(m, k), maxPeers)
        /\ \A j \in 1..(k - 1) : ~PowAtLeast(m, Pow(m, j), maxPeers)

\* NewGossiper (gossiper.go:83-104) with the degree d and the value n of
\* bMax and cMax.
GossiperWith(d, n) ==
    [degree |-> d, mcConfig |-> [bMax |-> n, cMax |-> n],
     gossipList |-> EmptyMap, oldGossipList |-> EmptyMap, apiClientsToNotify |-> EmptyMap,
     incomingGossips |-> EmptyMap, nextRoundPullPeers |-> {}, pullPeers |-> {}]
NewGossiper == GossiperWith(DefaultDegree, loglogN)

\* The history of a peer no list has named: the number of lists with the
\* peer that were sent to the Gossiper and not released since, and whether
\* a PeerAddMSG has moved its record back from the awaiting-removal list.
NotHanded == [lists |-> 0, promotedBack |-> FALSE]

\* The history before the first completed membership round.
NoRound == [done |-> FALSE, view |-> {}, pushRequests |-> {}, pullReplies |-> {},
            sampleList |-> {}]

\* The history of a peer that has been neither dialled nor probed.
NoLog == [phase |-> "idle", cmds |-> <<>>]

\* The state after construction of everything but the peer sampler.
InitNode(g, sizes) ==
    /\ msgInQueue = <<>>
    /\ viewList = EmptyMap
    /\ awaitingRemovalViewList = EmptyMap
    /\ activelyCreatedPeers = EmptyMap
    /\ activelyProbedPeers = EmptyMap
    /\ incomingViewList = EmptyMap
    /\ apiClients = EmptyMap
    /\ state = [isStopping |-> FALSE, totalGoroutines |-> 4]
    /\ subs = [membershipController |-> TRUE, gossiper |-> TRUE,
               apiListener |-> TRUE, p2pListener |-> TRUE]
    /\ ccStatus = "running"
    /\ dialing = {}
    /\ probing = EmptyMap
    /\ ep = [e \in EndpointIds |-> NoEndpoint]
    /\ listeners = [api |-> "running", p2p |-> "running"]
    /\ watchdog = "off"
    /\ mcStatus = "init"
    /\ mcView = {}
    /\ mcInQueue = <<>>
    /\ mcPending = <<>>
    /\ \E n \in sizes :
         /\ viewCap = ViewListCapOf(n)
         /\ mc = NewMembershipController(n)
    /\ fed = <<>>
    /\ gStatus = "running"
    /\ gInQueue = <<>>
    /\ gBorrowed = <<>>
    /\ gossiper = g
    /\ lent = [l \in SUBSET GossipPeers |-> 0]
    /\ promoted = {}
    /\ invalidated = EmptyMap
    /\ sigint = FALSE
    /\ lastDeleted = NoDeletion
    /\ cmdLog = [p \in Peers |-> NoLog]
    /\ lastRound = NoRound
    /\ handed = [p \in Peers |-> NotHanded]
InitControllersWith(g) == InitNode(g, {SmallMaxPeers, maxPeers})
InitControllers == InitControllersWith(NewGossiper)
\* Outside the peer sampler's own specification the sampler is a fresh one
\* that is given no candidate.
InitProgram ==
    /\ InitControllers
    /\ peerSampler = NewPeerSampler(CHOOSE f \in Permuters : TRUE)
    /\ sc = NewSecureConn(TRUE)
    /\ validated = NoValidation

Init ==
    /\ InitProgram
    /\ budget = [mc |-> MaxMCSteps, g |-> MaxGSteps, net |-> MaxNetSteps, rounds |-> 0]

(***************************************************************************)
(* The Central Controller (message.go:926-2341).                           *)
(***************************************************************************)
\* Run (message.go:2257-2299) takes the next message; once isStopping is
\* set only the stop messages reach their handler.
Receives(t) ==
    /\ ccStatus = "running"
    /\ msgInQueue # <<>>
    /\ Head(msgInQueue).type = t
    /\ state.isStopping => t \in centralControllerStopMessages

\* P2PEndpoint.Close and APIEndpoint.Close (peer.go:301-309,
\* message.go:840-849): closeOnce, a CLOSE message to the writer and the
\* closing of sigCh for the reader.
CloseWithoutOnce(endp) ==
    [endp EXCEPT !.closed = TRUE, !.closeMsgs = @ + 1, !.sigClosed = @ + 1,
                 !.closeCalls = IF @ < MaxCloseCalls THEN @ + 1 ELSE @]
EndpointClose(endp) ==
    IF endp.closed
      THEN [endp EXCEPT !.closeCalls = IF @ < MaxCloseCalls THEN @ + 1 ELSE @]
      ELSE [endp EXCEPT !.closed = TRUE, !.closeMsgs = @ + 1, !.sigClosed = @ + 1,
                        !.closeCalls = IF @ < MaxCloseCalls THEN @ + 1 ELSE @]
Close(e, id) == [e EXCEPT ![id] = EndpointClose(@)]
CloseAll(e, ids) == [x \in DOMAIN e |-> IF x \in ids THEN EndpointClose(e[x]) ELSE e[x]]

\* What is recorded when the record of an outgoing peer is deleted.
Deletion(peer, info, inRemoval) ==
    [peer |-> peer, readerState |-> info.readerState, writerState |-> info.writerState,
     usageCounter |-> info.usageCounter, isInRemovalList |-> inRemoval,
     isStopping |-> state.isStopping]

\* The peers the Central Controller holds a record of.
OutgoingRecords == DOMAIN viewList \cup DOMAIN awaitingRemovalViewList

\* The history of a dial or a probe: its phase ("idle", "dial", "dialed",
\* "probe", "probed") and the last MaxLogged commands the Central Controller
\* took for the peer while it was registered as being created or probed.
Logged(log, cmd) ==
    [log EXCEPT !.cmds = IF Len(@) < MaxLogged THEN Append(@, cmd)
                         ELSE Append(Tail(@), cmd)]

\* The flags of the two registries (message.go:1016-1023): peerAddHandler
\* clears the removal flag of a peer being created (1208-1211) and sets the
\* add flag of a peer being probed (1213-1216); peerRemoveHandler does the
\* opposite (1260-1268).
KeepsRemovalFlag(created, peer) == created
CancelRemoval(created, peer) == Put(created, peer, FALSE)
RequestRemoval(created, peer) == Put(created, peer, TRUE)
ForgetsAdd(probed, peer) == probed
RequestAdd(probed, peer) == Put(probed, peer, TRUE)
CancelAdd(probed, peer) == Put(probed, peer, FALSE)

\* The record peerAddHandler puts into the view list for a peer of the
\* awaiting-removal list (message.go:1201-1205): the record itself.
MovedBackAsNew(info) == NewPeerInfo
MovedBack(info) == info

\* The awaiting-removal list after peerAddHandler has taken the peer's
\* record out of it (message.go:1202).
StillAwaited(removal, peer) == removal
TakenBack(removal, peer) == Remove(removal, peer)

\* peerAddHandler (message.go:1191-1230).
peerAddHandler ==
    /\ Receives("PeerAddMSG")
    /\ LET peer == Head(msgInQueue).id IN
       /\ msgInQueue' = Tail(msgInQueue)
       /\ IF peer \in DOMAIN viewList
            THEN UNCHANGED <<viewList, awaitingRemovalViewList, activelyCreatedPeers,
                             activelyProbedPeers, dialing>>
          ELSE IF peer \in DOMAIN awaitingRemovalViewList
            THEN /\ awaitingRemovalViewList' = TakenBack(awaitingRemovalViewList, peer)
                 /\ viewList' = Put(viewList, peer, MovedBack(awaitingRemovalViewList[peer]))
                 /\ UNCHANGED <<activelyCreatedPeers, activelyProbedPeers, dialing>>
          ELSE IF peer \in DOMAIN activelyCreatedPeers
            THEN /\ activelyCreatedPeers' = CancelRemoval(activelyCreatedPeers, peer)
                 /\ UNCHANGED <<viewList, awaitingRemovalViewList, activelyProbedPeers, dialing>>
          ELSE IF peer \in DOMAIN activelyProbedPeers
            THEN /\ activelyProbedPeers' = RequestAdd(activelyProbedPeers, peer)
                 /\ UNCHANGED <<viewList, awaitingRemovalViewList, activelyCreatedPeers, dialing>>
          ELSE /\ activelyCreatedPeers' = Put(activelyCreatedPeers, peer, FALSE)
               /\ dialing' = dialing \cup {peer}
               /\ UNCHANGED <<viewList, awaitingRemovalViewList, activelyProbedPeers>>
       /\ cmdLog' = IF peer \in OutgoingRecords THEN cmdLog
                    ELSE IF peer \in DOMAIN activelyCreatedPeers \cup DOMAIN activelyProbedPeers
                      THEN [cmdLog EXCEPT ![peer] = Logged(@, "add")]
                    ELSE [cmdLog EXCEPT ![peer] = [phase |-> "dial", cmds |-> <<>>]]
       /\ handed' = IF peer \in DOMAIN awaitingRemovalViewList \ DOMAIN viewList
                      THEN [handed EXCEPT ![peer].promotedBack = TRUE]
                      ELSE handed
    /\ UNCHANGED <<incomingViewList, apiClients, state, subs, ccStatus, probing, ep,
                   listeners, watchdog, mcStatus, mcView, mcInQueue, mcPending, viewCap,
                   mc, peerSampler, fed, sc, validated, lastRound, gVars, envVars, lastDeleted>>

\* The goroutine started by peerAddHandler (message.go:1220-1227) with
\* NewP2PEndpoint (peer.go:177-188): the endpoint is returned whether or not
\* the dial and its handshake succeeded, with a nil conn when they failed;
\* the error is discarded and the endpoint is sent to the Central Controller.
DialDone(peer, ok) ==
    /\ ccStatus = "running"
    /\ peer \in dialing
    /\ Len(msgInQueue) < InQueueCap
    /\ dialing' = dialing \ {peer}
    /\ msgInQueue' = Append(msgInQueue, Msg("OutgoingP2PCreatedMSG", peer, ok))
    /\ UNCHANGED <<viewList, awaitingRemovalViewList, activelyCreatedPeers,
                   activelyProbedPeers, incomingViewList, apiClients, state, subs, ccStatus,
                   probing, ep, listeners, watchdog, mcVars, gVars, envVars, lastDeleted>>

\* outgoingP2PCreatedHandler (message.go:2056-2099).
outgoingP2PCreatedHandler ==
    /\ Receives("OutgoingP2PCreatedMSG")
    /\ LET peer == Head(msgInQueue).id
           conn == IF Head(msgInQueue).flag THEN "ok" ELSE "nil"
       IN
       IF peer \notin DOMAIN activelyCreatedPeers
         THEN /\ msgInQueue' = Tail(msgInQueue)
              /\ UNCHANGED <<activelyCreatedPeers, viewList, state, ep, cmdLog>>
         ELSE /\ activelyCreatedPeers' = Remove(activelyCreatedPeers, peer)
              /\ cmdLog' = [cmdLog EXCEPT ![peer].phase = "dialed"]
              /\ ep' = [ep EXCEPT ![peer] = [conn |-> conn, reader |-> "run",
                                             writer |-> "run", closed |-> FALSE,
                                                            closeMsgs |-> 0, sigClosed |-> 0, closeCalls |-> 0, decodeErrs |-> 0]]
              /\ state' = [state EXCEPT !.totalGoroutines = @ + 2]
              /\ viewList' = Put(viewList, peer, NewPeerInfo)
              /\ msgInQueue' =
                   IF activelyCreatedPeers[peer]
                     THEN Append(Tail(msgInQueue), Msg("PeerRemoveMSG", peer, FALSE))
                     ELSE Tail(msgInQueue)
    /\ UNCHANGED <<awaitingRemovalViewList, activelyProbedPeers, incomingViewList,
                   apiClients, subs, ccStatus, dialing, probing, listeners, watchdog,
                   mcStatus, mcView, mcInQueue, mcPending, viewCap, mc, peerSampler, fed,
                   sc, validated, lastRound, handed, gVars, envVars, lastDeleted>>

\* What peerRemoveHandler does with the record it has moved to the
\* awaiting-removal list (message.go:1250-1257): with users left it keeps
\* the record and its connection, else it deletes the record of an endpoint
\* that has stopped and closes an endpoint that has not.
LoosePeerRemoveOutcome(info) ==
    IF info.usageCounter <= 0 THEN "delete" ELSE "keep"
PeerRemoveOutcome(info) ==
    IF info.usageCounter <= 0
      THEN IF HaveBothStopped(info) THEN "delete" ELSE "close"
      ELSE "keep"

\* peerRemoveHandler (message.go:1234-1272).
peerRemoveHandler ==
    /\ Receives("PeerRemoveMSG")
    /\ LET peer == Head(msgInQueue).id IN
       /\ msgInQueue' = Tail(msgInQueue)
       /\ IF peer \in DOMAIN awaitingRemovalViewList
            THEN UNCHANGED <<viewList, awaitingRemovalViewList, activelyCreatedPeers,
                             activelyProbedPeers, ep, lastDeleted>>
          ELSE IF peer \in DOMAIN viewList
            THEN LET info == viewList[peer]
                     outcome == PeerRemoveOutcome(info)
                 IN
                 /\ viewList' = Remove(viewList, peer)
                 /\ awaitingRemovalViewList' =
                      IF outcome = "delete" THEN awaitingRemovalViewList
                      ELSE Put(awaitingRemovalViewList, peer, info)
                 /\ lastDeleted' = IF outcome = "delete" THEN Deletion(peer, info, TRUE)
                                   ELSE lastDeleted
                 /\ ep' = IF outcome = "close" THEN Close(ep, peer) ELSE ep
                 /\ UNCHANGED <<activelyCreatedPeers, activelyProbedPeers>>
          ELSE IF peer \in DOMAIN activelyCreatedPeers
            THEN /\ activelyCreatedPeers' = RequestRemoval(activelyCreatedPeers, peer)
                 /\ UNCHANGED <<viewList, awaitingRemovalViewList, activelyProbedPeers,
                                ep, lastDeleted>>
          ELSE IF peer \in DOMAIN activelyProbedPeers
            THEN /\ activelyProbedPeers' = CancelAdd(activelyProbedPeers, peer)
                 /\ UNCHANGED <<viewList, awaitingRemovalViewList, activelyCreatedPeers,
                                ep, lastDeleted>>
          ELSE UNCHANGED <<viewList, awaitingRemovalViewList, activelyCreatedPeers,
                           activelyProbedPeers, ep, lastDeleted>>
       /\ cmdLog' = IF /\ peer \notin OutgoingRecords
                       /\ peer \in DOMAIN activelyCreatedPeers \cup DOMAIN activelyProbedPeers
                      THEN [cmdLog EXCEPT ![peer] = Logged(@, "remove")]
                      ELSE cmdLog
    /\ UNCHANGED <<incomingViewList, apiClients, state, subs, ccStatus, dialing, probing,
                   listeners, watchdog, mcStatus, mcView, mcInQueue, mcPending, viewCap,
                   mc, peerSampler, fed, sc, validated, lastRound, handed, gVars, envVars>>

\* A send on the MsgInQueue of a submodule: it dereferences the submodule
\* pointer, which the *ClosedHandlers set to nil, and blocks while the queue
\* is full.  Sent(q, q2, m, alive) is the handler's outcome: the message is
\* queued, or the handler panics on the nil pointer; with a full queue the
\* handler does not complete.
CanSend(q, alive) == alive => Len(q) < OutQueueCap

\* The probe goroutines in flight for each peer: one is started by each
\* ProbePeerRequestMSG that finds no record of the peer (message.go:1297),
\* and each ends with its send (or its panic).
Started(tasks, peer) ==
    Put(tasks, peer, IF peer \in DOMAIN tasks THEN tasks[peer] + 1 ELSE 1)
Finished(tasks, peer) ==
    IF tasks[peer] > 1 THEN Put(tasks, peer, tasks[peer] - 1) ELSE Remove(tasks, peer)

\* probePeerRequestHandler (message.go:1276-1310).
probePeerRequestHandler ==
    /\ Receives("ProbePeerRequestMSG")
    /\ LET peer == Head(msgInQueue).id IN
       /\ msgInQueue' = Tail(msgInQueue)
       /\ IF \/ peer \in DOMAIN viewList
             \/ peer \in DOMAIN awaitingRemovalViewList
             \/ peer \in DOMAIN activelyCreatedPeers
            THEN /\ CanSend(mcInQueue, subs.membershipController)
                 /\ IF subs.membershipController
                      THEN /\ mcInQueue' = Append(mcInQueue, Msg("ProbePeerReplyMSG", peer, TRUE))
                           /\ ccStatus' = ccStatus
                      ELSE /\ ccStatus' = "crashed"
                           /\ mcInQueue' = mcInQueue
                 /\ UNCHANGED <<activelyProbedPeers, probing, cmdLog>>
            ELSE /\ activelyProbedPeers' = Put(activelyProbedPeers, peer, FALSE)
                 /\ probing' = Started(probing, peer)
                 /\ cmdLog' = IF peer \in DOMAIN activelyProbedPeers
                                THEN [cmdLog EXCEPT ![peer] = Logged(@, "probe")]
                                ELSE [cmdLog EXCEPT ![peer] = [phase |-> "probe", cmds |-> <<>>]]
                 /\ UNCHANGED <<mcInQueue, ccStatus>>
    /\ UNCHANGED <<viewList, awaitingRemovalViewList, activelyCreatedPeers, incomingViewList,
                   apiClients, state, subs, dialing, ep, listeners, watchdog,
                   mcStatus, mcView, mcPending, viewCap, mc, peerSampler, fed, sc, validated, lastRound, handed,
                   gVars, envVars, lastDeleted>>

\* The goroutine started by probePeerRequestHandler (message.go:1297-1307),
\* when the TCP dial succeeds: the connection is closed and the result sent.
ProbeDone(peer) ==
    /\ ccStatus = "running"
    /\ peer \in DOMAIN probing
    /\ Len(msgInQueue) < InQueueCap
    /\ probing' = Finished(probing, peer)
    /\ msgInQueue' = Append(msgInQueue, Msg("CentralProbePeerReplyMSG", peer, TRUE))
    /\ UNCHANGED <<viewList, awaitingRemovalViewList, activelyCreatedPeers,
                   activelyProbedPeers, incomingViewList, apiClients, state, subs, ccStatus,
                   dialing, ep, listeners, watchdog, mcVars, gVars, envVars, lastDeleted>>

\* The same goroutine when the TCP dial fails: conn is nil and conn.Close()
\* (message.go:1300) panics in a goroutine that has no recover, which ends
\* the process.
ProbeFailed(peer) ==
    /\ ccStatus = "running"
    /\ peer \in DOMAIN probing
    /\ probing' = Finished(probing, peer)
    /\ ccStatus' = "killed"
    /\ UNCHANGED <<msgInQueue, viewList, awaitingRemovalViewList, activelyCreatedPeers,
                   activelyProbedPeers, incomingViewList, apiClients, state, subs,
                   dialing, ep, listeners, watchdog, mcVars, gVars, envVars, lastDeleted>>

\* centralProbePeerReplyHandler (message.go:2103-2131).
centralProbePeerReplyHandler ==
    /\ Receives("CentralProbePeerReplyMSG")
    /\ LET m == Head(msgInQueue) IN
       IF m.id \notin DOMAIN activelyProbedPeers
         THEN /\ msgInQueue' = Tail(msgInQueue)
              /\ UNCHANGED <<activelyProbedPeers, mcInQueue, ccStatus, cmdLog>>
         ELSE /\ activelyProbedPeers' = Remove(activelyProbedPeers, m.id)
              /\ cmdLog' = [cmdLog EXCEPT ![m.id].phase = "probed"]
              /\ CanSend(mcInQueue, subs.membershipController)
              /\ IF subs.membershipController
                   THEN /\ mcInQueue' = Append(mcInQueue, Msg("ProbePeerReplyMSG", m.id, m.flag))
                        /\ ccStatus' = ccStatus
                        /\ msgInQueue' =
                             IF activelyProbedPeers[m.id]
                               THEN Append(Tail(msgInQueue), Msg("PeerAddMSG", m.id, FALSE))
                               ELSE Tail(msgInQueue)
                   ELSE /\ ccStatus' = "crashed"
                        /\ mcInQueue' = mcInQueue
                        /\ msgInQueue' = Tail(msgInQueue)
    /\ UNCHANGED <<viewList, awaitingRemovalViewList, activelyCreatedPeers, incomingViewList,
                   apiClients, state, subs, dialing, probing, ep, listeners, watchdog,
                   mcStatus, mcView, mcPending, viewCap, mc, peerSampler, fed, sc, validated, lastRound, handed,
                   gVars, envVars, lastDeleted>>

LooseRandomPeerLists(n) == {L \in SUBSET (DOMAIN viewList) : Cardinality(L) <= n}
\* mrand.Perm(size)[:Min(n, size)] (message.go:1434-1435): the sets of
\* Min(n, size) distinct keys of the view list.
RandomPeerLists(n) ==
    {L \in SUBSET (DOMAIN viewList) : Cardinality(L) = Min(n, Cardinality(DOMAIN viewList))}

\* randomPeerListRequestHandler (message.go:1427-1455).
randomPeerListRequestHandler ==
    /\ Receives("RandomPeerListRequestMSG")
    /\ msgInQueue' = Tail(msgInQueue)
    /\ CanSend(gInQueue, subs.gossiper)
    /\ \E RandomPeers \in RandomPeerLists(Head(msgInQueue).num) :
         /\ viewList' = [q \in DOMAIN viewList |->
                           IF q \in RandomPeers
                             THEN [viewList[q] EXCEPT !.usageCounter = @ + 1]
                             ELSE viewList[q]]
         /\ IF subs.gossiper
              THEN /\ gInQueue' = Append(gInQueue,
                                         ListMsg("RandomPeerListReplyMSG", RandomPeers, 0))
                   /\ ccStatus' = ccStatus
                   /\ handed' = [q \in Peers |->
                                   IF q \in RandomPeers
                                     THEN [handed[q] EXCEPT !.lists = @ + 1]
                                     ELSE handed[q]]
              ELSE /\ ccStatus' = "crashed"
                   /\ gInQueue' = gInQueue
                   /\ handed' = handed
    /\ UNCHANGED <<awaitingRemovalViewList, activelyCreatedPeers, activelyProbedPeers,
                   incomingViewList, apiClients, state, subs, taskVars,
                   mcStatus, mcView, mcInQueue, mcPending, viewCap, mc, peerSampler, fed,
                   sc, validated, lastRound, cmdLog,
                   gStatus, gBorrowed, gossiper, lent, promoted, invalidated, envVars, lastDeleted>>

\* The test of randomPeerListReleaseHandler on an awaiting-removal record
\* whose counter it has just decremented (message.go:1481).
ReleasedToZero(info) == info.usageCounter - 1 <= 0

\* randomPeerListReleaseHandler (message.go:1459-1497).  A peer occurs once
\* in a released list, so the peers are handled independently.
randomPeerListReleaseHandler ==
    /\ Receives("RandomPeerListReleaseMSG")
    /\ LET peerList == Head(msgInQueue).list
           inView == peerList \cap DOMAIN viewList
           inRemoval == peerList \cap DOMAIN awaitingRemovalViewList
           zero == {q \in inRemoval : ReleasedToZero(awaitingRemovalViewList[q])}
           deleted == {q \in zero : HaveBothStopped(awaitingRemovalViewList[q])}
       IN
       /\ msgInQueue' = Tail(msgInQueue)
       /\ viewList' = [q \in DOMAIN viewList |->
                         IF q \in inView
                           THEN [viewList[q] EXCEPT !.usageCounter = @ - 1]
                           ELSE viewList[q]]
       /\ awaitingRemovalViewList' =
            [q \in (DOMAIN awaitingRemovalViewList) \ deleted |->
               IF q \in inRemoval
                 THEN [awaitingRemovalViewList[q] EXCEPT !.usageCounter = @ - 1]
                 ELSE awaitingRemovalViewList[q]]
       /\ ep' = CloseAll(ep, zero \ deleted)
       /\ lastDeleted' =
            IF deleted = {} THEN lastDeleted
            ELSE LET q == CHOOSE x \in deleted : TRUE IN
                 Deletion(q, [awaitingRemovalViewList[q] EXCEPT !.usageCounter = @ - 1], TRUE)
       /\ handed' = [q \in Peers |->
                       IF q \in peerList THEN [handed[q] EXCEPT !.lists = @ - 1]
                       ELSE handed[q]]
    /\ UNCHANGED <<activelyCreatedPeers, activelyProbedPeers, incomingViewList, apiClients,
                   state, subs, ccStatus, dialing, probing, listeners, watchdog,
                   mcStatus, mcView, mcInQueue, mcPending, viewCap, mc, peerSampler, fed,
                   sc, validated, lastRound, cmdLog, gVars, envVars>>

\* What a *ClosedHandler returns after its totalGoroutines--: a CloseError,
\* which ends Run gracefully, once the counter is not positive
\* (message.go:1415-1418 and alike).
AfterAck(total) == IF total <= 0 THEN "done" ELSE "running"

\* membershipCrashedHandler, gossiperCrashedHandler, p2pListenerCrashedHandler
\* and crashHandler (message.go:1395-1401, 1609-1615, 1799-1805, 2199-2205):
\* each panics with the reported error, and recover (message.go:1171-1187)
\* ends the process with log.Fatalln.
PanicOn(t) ==
    /\ Receives(t)
    /\ msgInQueue' = Tail(msgInQueue)
    /\ ccStatus' = "crashed"
    /\ UNCHANGED <<viewList, awaitingRemovalViewList, activelyCreatedPeers,
                   activelyProbedPeers, incomingViewList, apiClients, state, subs,
                   taskVars, mcVars, gVars, envVars, lastDeleted>>

membershipCrashedHandler == PanicOn("MembershipCrashedMSG")
gossiperCrashedHandler == PanicOn("GossiperCrashedMSG")
p2pListenerCrashedHandler == PanicOn("P2PListenerCrashedMSG")
crashHandler == PanicOn("CentralCrashMSG")

\* membershipClosedHandler, gossiperClosedHandler, apiListenerClosedHandler
\* (message.go:1407-1421, 1621-1635, 1653-1667): the pointer to the
\* submodule is set to nil and the goroutine counter decremented.
ClosedOn(t, sub) ==
    /\ Receives(t)
    /\ msgInQueue' = Tail(msgInQueue)
    /\ subs' = [subs EXCEPT ![sub] = FALSE]
    /\ state' = [state EXCEPT !.totalGoroutines = @ - 1]
    /\ ccStatus' = AfterAck(state.totalGoroutines - 1)
    /\ UNCHANGED <<viewList, awaitingRemovalViewList, activelyCreatedPeers,
                   activelyProbedPeers, incomingViewList, apiClients,
                   taskVars, mcVars, gVars, envVars, lastDeleted>>

membershipClosedHandler == ClosedOn("MembershipClosedMSG", "membershipController")
gossiperClosedHandler == ClosedOn("GossiperClosedMSG", "gossiper")
apiListenerClosedHandler == ClosedOn("APIListenerClosedMSG", "apiListener")

\* apiClientsMAX is the cache_size given by the user (message.go:1125).
cacheSize == 2
\* incomingViewListMAX (message.go:1123).
incomingViewListMAX == 2 * viewCap

\* apiEndpointCreatedHandler and incomingP2PCreatedHandler
\* (message.go:1674-1714, 1832-1872): the endpoint is refused when the
\* table is full, the address is already known or the node is stopping.
RefusedWhenOverfull(table, max, id) ==
    Cardinality(DOMAIN table) > max \/ id \in DOMAIN table \/ state.isStopping
Refused(table, max, id) ==
    Cardinality(DOMAIN table) >= max \/ id \in DOMAIN table \/ state.isStopping

\* The goroutine that closes the connection of a refused endpoint
\* (message.go:1690-1696, 1848-1854).  No goroutine of the refused endpoint
\* was started; when goroutines of an endpoint with the same address are
\* running, ep[id] is that endpoint and the refused one is not kept.
CloseRefused(e, id) ==
    IF e[id].reader = "run" \/ e[id].writer = "run" THEN e
    ELSE [e EXCEPT ![id].conn = "closed"]

apiEndpointCreatedHandler ==
    /\ Receives("APIEndpointCreatedMSG")
    /\ LET client == Head(msgInQueue).id IN
       /\ msgInQueue' = Tail(msgInQueue)
       /\ IF Refused(apiClients, cacheSize, client)
            THEN ep' = CloseRefused(ep, client) /\ UNCHANGED <<apiClients, state>>
            ELSE /\ ep' = [ep EXCEPT ![client] = [conn |-> "ok", reader |-> "run",
                                                   writer |-> "run", closed |-> FALSE,
                                                            closeMsgs |-> 0, sigClosed |-> 0, closeCalls |-> 0, decodeErrs |-> 0]]
                 /\ state' = [state EXCEPT !.totalGoroutines = @ + 2]
                 /\ apiClients' = Put(apiClients, client, NewPeerInfo)
    /\ UNCHANGED <<viewList, awaitingRemovalViewList, activelyCreatedPeers,
                   activelyProbedPeers, incomingViewList, subs, ccStatus, dialing, probing,
                   listeners, watchdog, mcVars, gVars, envVars, lastDeleted>>

incomingP2PCreatedHandler ==
    /\ Receives("IncomingP2PCreatedMSG")
    /\ LET peer == Head(msgInQueue).id IN
       /\ msgInQueue' = Tail(msgInQueue)
       /\ IF Refused(incomingViewList, incomingViewListMAX, peer)
            THEN ep' = CloseRefused(ep, peer) /\ UNCHANGED <<incomingViewList, state>>
            ELSE /\ ep' = [ep EXCEPT ![peer] = [conn |-> "ok", reader |-> "run",
                                                 writer |-> "run", closed |-> FALSE,
                                                            closeMsgs |-> 0, sigClosed |-> 0, closeCalls |-> 0, decodeErrs |-> 0]]
                 /\ state' = [state EXCEPT !.totalGoroutines = @ + 2]
                 /\ incomingViewList' = Put(incomingViewList, peer, NewPeerInfo)
    /\ UNCHANGED <<viewList, awaitingRemovalViewList, activelyCreatedPeers,
                   activelyProbedPeers, apiClients, subs, ccStatus, dialing, probing,
                   listeners, watchdog, mcVars, gVars, envVars, lastDeleted>>

\* The record of an endpoint after one of its halves is reported stopped,
\* with or without an error.
Stopped(info, isReader, err) ==
    [info EXCEPT !.readerState = IF isReader THEN "STOPPED" ELSE @,
                 !.writerState = IF isReader THEN @ ELSE "STOPPED",
                 !.hasCrashed = @ \/ err]
AlreadyStopped(info, isReader) ==
    IF isReader THEN info.readerState = "STOPPED" ELSE info.writerState = "STOPPED"

\* apiEndpointClosed (message.go:1717-1775), for the client and half named
\* by the head message; err tells whether an error is reported.
apiEndpointClosed(err) ==
    LET m == Head(msgInQueue)
        client == m.id
    IN
    /\ msgInQueue' = Tail(msgInQueue)
    /\ IF client \notin DOMAIN apiClients \/ AlreadyStopped(apiClients[client], m.flag)
         THEN UNCHANGED <<apiClients, state, ep, gInQueue, ccStatus>>
         ELSE LET info == Stopped(apiClients[client], m.flag, err)
                  total == state.totalGoroutines - 1
              IN
              /\ state' = [state EXCEPT !.totalGoroutines = total]
              /\ IF HaveBothStopped(info)
                   THEN /\ apiClients' = Remove(apiClients, client)
                        /\ ep' = ep
                        /\ CanSend(gInQueue, subs.gossiper)
                        /\ IF subs.gossiper
                             THEN /\ gInQueue' = Append(gInQueue,
                                                        Msg("GossipUnnofityMSG", client, FALSE))
                                  /\ ccStatus' = AfterAck(total)
                             ELSE /\ gInQueue' = gInQueue
                                  /\ ccStatus' = "crashed"
                   ELSE /\ apiClients' = Put(apiClients, client, info)
                        /\ ep' = IF info.hasCrashed THEN Close(ep, client) ELSE ep
                        /\ UNCHANGED <<gInQueue, ccStatus>>
    /\ UNCHANGED <<viewList, awaitingRemovalViewList, activelyCreatedPeers,
                   activelyProbedPeers, incomingViewList, subs, dialing, probing,
                   listeners, watchdog, mcVars, gStatus, gBorrowed, gossiper, lent, promoted, invalidated, envVars, lastDeleted>>

\* apiEndpointCrashedHandler (message.go:1779-1785).
apiEndpointCrashedHandler ==
    /\ Receives("APIEndpointCrashedMSG")
    /\ apiEndpointClosed(TRUE)

\* apiEndpointClosedHandler (message.go:1789-1795).
apiEndpointClosedHandler ==
    /\ Receives("APIEndpointClosedMSG")
    /\ apiEndpointClosed(FALSE)

\* outgoingPeerCompletelyClosed (message.go:1876-1926) decides what becomes
\* of the record of an outgoing peer both of whose halves have stopped:
\* "delete" it, "report" the disconnection to the Membership controller and
\* keep it, or "keep" it until its users release it.
CompletelyClosedOutcome(info, isInRemovalList) ==
    IF state.isStopping THEN "delete"
    ELSE IF ~isInRemovalList THEN "report"
    ELSE IF info.usageCounter <= 0 THEN "delete"
    ELSE "keep"

\* outgoingPeerClosed (message.go:1930-1969) with outgoingPeerCompletelyClosed
\* (message.go:1876-1926) for the peer and half named by the head message.
outgoingPeerClosed(err) ==
    LET m == Head(msgInQueue)
        peer == m.id
        inView == peer \in DOMAIN viewList
        isInRemovalList == peer \in DOMAIN awaitingRemovalViewList
        old == IF inView THEN viewList[peer] ELSE awaitingRemovalViewList[peer]
    IN
    /\ msgInQueue' = Tail(msgInQueue)
    /\ IF (~inView /\ ~isInRemovalList) \/ AlreadyStopped(old, m.flag)
         THEN UNCHANGED <<viewList, awaitingRemovalViewList, state, ep, mcInQueue,
                          ccStatus, lastDeleted>>
         ELSE LET info == Stopped(old, m.flag, err)
                  total == state.totalGoroutines - 1
                  outcome == IF HaveBothStopped(info)
                               THEN CompletelyClosedOutcome(info, isInRemovalList)
                               ELSE "running"
              IN
              /\ state' = [state EXCEPT !.totalGoroutines = total]
              /\ viewList' = IF ~inView THEN viewList
                             ELSE IF outcome = "delete" THEN Remove(viewList, peer)
                             ELSE Put(viewList, peer, info)
              /\ awaitingRemovalViewList' =
                   IF inView THEN awaitingRemovalViewList
                   ELSE IF outcome = "delete" THEN Remove(awaitingRemovalViewList, peer)
                   ELSE Put(awaitingRemovalViewList, peer, info)
              /\ lastDeleted' = IF outcome = "delete"
                                  THEN Deletion(peer, info, isInRemovalList)
                                  ELSE lastDeleted
              /\ ep' = IF outcome = "running" /\ info.hasCrashed THEN Close(ep, peer) ELSE ep
              /\ IF outcome = "report"
                   THEN /\ CanSend(mcInQueue, subs.membershipController)
                        /\ IF subs.membershipController
                             THEN /\ mcInQueue' = Append(mcInQueue,
                                                         Msg("PeerDisconnectedMSG", peer, FALSE))
                                  /\ ccStatus' = AfterAck(total)
                             ELSE /\ mcInQueue' = mcInQueue
                                  /\ ccStatus' = "crashed"
                   ELSE /\ mcInQueue' = mcInQueue
                        /\ ccStatus' = IF outcome = "running" THEN ccStatus ELSE AfterAck(total)
    /\ UNCHANGED <<activelyCreatedPeers, activelyProbedPeers, incomingViewList, apiClients,
                   subs, dialing, probing, listeners, watchdog,
                   mcStatus, mcView, mcPending, viewCap, mc, peerSampler, fed, sc, validated, lastRound, handed, cmdLog, gVars, envVars>>

\* incomingPeerClosed (message.go:1972-2026).
incomingPeerClosed(err) ==
    LET m == Head(msgInQueue)
        peer == m.id
    IN
    /\ msgInQueue' = Tail(msgInQueue)
    /\ IF peer \notin DOMAIN incomingViewList \/ AlreadyStopped(incomingViewList[peer], m.flag)
         THEN UNCHANGED <<incomingViewList, state, ep, ccStatus>>
         ELSE LET info == Stopped(incomingViewList[peer], m.flag, err)
                  total == state.totalGoroutines - 1
              IN
              /\ state' = [state EXCEPT !.totalGoroutines = total]
              /\ IF HaveBothStopped(info)
                   THEN /\ incomingViewList' = Remove(incomingViewList, peer)
                        /\ ep' = ep
                        /\ ccStatus' = AfterAck(total)
                   ELSE /\ incomingViewList' = Put(incomingViewList, peer, info)
                        /\ ep' = IF info.hasCrashed THEN Close(ep, peer) ELSE ep
                        /\ ccStatus' = ccStatus
    /\ UNCHANGED <<viewList, awaitingRemovalViewList, activelyCreatedPeers,
                   activelyProbedPeers, apiClients, subs, dialing, probing, listeners,
                   watchdog, mcVars, gVars, envVars, lastDeleted>>

\* The type assertions payload.(P2PEndpointCrashedMSGPayload) and
\* payload.(P2PEndpointClosedMSGPayload) (message.go:2031, 2044) succeed on
\* a payload that is the struct itself, and fail on a pointer to it.
AssertsAsStruct(m) == ~m.ptr

\* A handler whose type assertion fails returns nil (message.go:2032-2034).
ReturnNil ==
    /\ msgInQueue' = Tail(msgInQueue)
    /\ UNCHANGED <<viewList, awaitingRemovalViewList, activelyCreatedPeers,
                   activelyProbedPeers, incomingViewList, apiClients, state, subs, ccStatus,
                   taskVars, mcVars, gVars, envVars, lastDeleted>>

\* p2pEndpointCrashedHandler (message.go:2030-2039).
p2pEndpointCrashedHandler ==
    /\ Receives("P2PEndpointCrashedMSG")
    /\ IF ~AssertsAsStruct(Head(msgInQueue)) THEN ReturnNil
       ELSE IF Head(msgInQueue).id \in Peers THEN outgoingPeerClosed(TRUE)
       ELSE incomingPeerClosed(TRUE)

\* p2pEndpointClosedHandler (message.go:2043-2052).
p2pEndpointClosedHandler ==
    /\ Receives("P2PEndpointClosedMSG")
    /\ IF ~AssertsAsStruct(Head(msgInQueue)) THEN ReturnNil
       ELSE IF Head(msgInQueue).id \in Peers THEN outgoingPeerClosed(FALSE)
       ELSE incomingPeerClosed(FALSE)

\* closeHandler (message.go:2209-2254).
closeHandler ==
    /\ Receives("CentralCloseMSG")
    /\ msgInQueue' = Tail(msgInQueue)
    /\ listeners' = [api |-> "closing", p2p |-> "closing"]
    /\ Len(mcInQueue) < OutQueueCap
    /\ mcInQueue' = Append(mcInQueue, Msg("MembershipCloseMSG", "none", FALSE))
    /\ Len(gInQueue) < OutQueueCap
    /\ gInQueue' = Append(gInQueue, Msg("GossiperCloseMSG", "none", FALSE))
    /\ ep' = CloseAll(ep, DOMAIN viewList \cup DOMAIN awaitingRemovalViewList
                            \cup DOMAIN incomingViewList \cup DOMAIN apiClients)
    /\ activelyCreatedPeers' = [q \in DOMAIN activelyCreatedPeers |-> TRUE]
    /\ activelyProbedPeers' = [q \in DOMAIN activelyProbedPeers |-> FALSE]
    /\ state' = [state EXCEPT !.isStopping = TRUE]
    /\ watchdog' = "armed"
    /\ UNCHANGED <<viewList, awaitingRemovalViewList, incomingViewList, apiClients, subs,
                   ccStatus, dialing, probing, mcStatus, mcView, mcPending, viewCap, mc, peerSampler, fed, sc, validated, lastRound, handed, cmdLog,
                   gStatus, gBorrowed, gossiper, lent, promoted, invalidated, envVars, lastDeleted>>

\* Run (message.go:2276-2279): once isStopping is set, a message that is
\* not a stop message is taken from the queue and dropped.
RunDrop ==
    /\ ccStatus = "running"
    /\ msgInQueue # <<>>
    /\ state.isStopping
    /\ Head(msgInQueue).type \notin centralControllerStopMessages
    /\ ReturnNil

\* The timer started by closeHandler (message.go:2249-2252) fires after
\* closureTimeout and sends CentralCrashMSG.
WatchdogFire ==
    /\ ccStatus = "running"
    /\ watchdog = "armed"
    /\ Len(msgInQueue) < InQueueCap
    /\ watchdog' = "fired"
    /\ msgInQueue' = Append(msgInQueue, Msg("CentralCrashMSG", "none", FALSE))
    /\ UNCHANGED <<viewList, awaitingRemovalViewList, activelyCreatedPeers,
                   activelyProbedPeers, incomingViewList, apiClients, state, subs, ccStatus,
                   dialing, probing, ep, listeners, mcVars, gVars, envVars, lastDeleted>>

(***************************************************************************)
(* The goroutines of the endpoints and of the listeners.                   *)
(***************************************************************************)
\* What a goroutine leaves unchanged when it sends one message to the
\* Central Controller and changes its own endpoint or listener.
SendsToCentral(m) ==
    /\ ccStatus = "running"
    /\ Len(msgInQueue) < InQueueCap
    /\ msgInQueue' = Append(msgInQueue, m)
    /\ UNCHANGED <<viewList, awaitingRemovalViewList, activelyCreatedPeers,
                   activelyProbedPeers, incomingViewList, apiClients, state, subs, ccStatus,
                   dialing, probing, watchdog, lastDeleted>>

P2PIds == Peers \cup InPeers

\* P2PEndpoint.readerRoutine and recover (peer.go:190-250, 339-356).  The
\* loop tests sigCh with "switch { case <-sigCh: done = true }": the value
\* received from the closed channel is nil, which is not equal to the
\* switch value true, so done is never set and the reader leaves its loop
\* only by a panic: at once on a nil conn (SetDeadline, peer.go:197), or on
\* a payload of the remote peer that fails a type assertion (peer.go:221,
\* 225, 232).  recover sends a pointer to the payload struct.
P2PReaderCrash(id) ==
    /\ ep[id].reader = "run"
    /\ ep[id].conn = "nil" \/ budget.net > 0
    /\ budget' = IF ep[id].conn = "nil" THEN budget ELSE [budget EXCEPT !.net = @ - 1]
    /\ ep' = [ep EXCEPT ![id].reader = "exit"]
    /\ SendsToCentral(PtrMsg("P2PEndpointCrashedMSG", id, TRUE))
    /\ UNCHANGED <<listeners, mcVars, gVars, sigint>>

\* P2PEndpoint.writerRoutine (peer.go:259-291): the writer leaves its loop
\* on the CLOSE message that Close() puts on its queue, and sends a pointer
\* to the payload struct.
P2PWriterExit(id) ==
    /\ ep[id].writer = "run"
    /\ ep[id].closed
    /\ ep' = [ep EXCEPT ![id].writer = "exit"]
    /\ SendsToCentral(PtrMsg("P2PEndpointClosedMSG", id, FALSE))
    /\ UNCHANGED <<listeners, mcVars, gVars, envVars>>

\* APIEndpoint.readerRoutine (message.go:595-682): the reader leaves its
\* loop once sigCh is closed.
APIReaderExit(id) ==
    /\ ep[id].reader = "run"
    /\ ep[id].closed
    /\ ep' = [ep EXCEPT ![id].reader = "exit"]
    /\ SendsToCentral(Msg("APIEndpointClosedMSG", id, TRUE))
    /\ UNCHANGED <<listeners, mcVars, gVars, envVars>>

\* APIEndpoint.readerRoutine panics on a read error that is not a timeout
\* (message.go:620-621), which is what a client that disconnects causes;
\* recover (message.go:880-898) reports the crash.
APIReaderCrash(id) ==
    /\ ep[id].reader = "run"
    /\ budget.net > 0
    /\ budget' = [budget EXCEPT !.net = @ - 1]
    /\ ep' = [ep EXCEPT ![id].reader = "exit"]
    /\ SendsToCentral(Msg("APIEndpointCrashedMSG", id, TRUE))
    /\ UNCHANGED <<listeners, mcVars, gVars, sigint>>

\* APIEndpoint.writerRoutine (message.go:806-830) leaves its loop on the
\* CLOSE message.
APIWriterExit(id) ==
    /\ ep[id].writer = "run"
    /\ ep[id].closed
    /\ ep' = [ep EXCEPT ![id].writer = "exit"]
    /\ SendsToCentral(Msg("APIEndpointClosedMSG", id, FALSE))
    /\ UNCHANGED <<listeners, mcVars, gVars, envVars>>

\* No goroutine of an earlier connection from this address is still alive.
Free(id) == ep[id].reader # "run" /\ ep[id].writer # "run"

\* APIListener.listenerRoutine (message.go:546-577) accepts a client.
APIAccept(id) ==
    /\ listeners.api = "running"
    /\ Free(id)
    /\ budget.net > 0
    /\ budget' = [budget EXCEPT !.net = @ - 1]
    /\ SendsToCentral(Msg("APIEndpointCreatedMSG", id, TRUE))
    /\ UNCHANGED <<ep, listeners, mcVars, gVars, sigint>>

\* APIListener.listenerRoutine after Close() (message.go:550-556, 576-577).
APIListenerExit ==
    /\ listeners.api = "closing"
    /\ listeners' = [listeners EXCEPT !.api = "exited"]
    /\ SendsToCentral(Msg("APIListenerClosedMSG", "none", FALSE))
    /\ UNCHANGED <<ep, mcVars, gVars, envVars>>

\* P2PListener.listenerRoutine (peer.go:129-159) accepts a remote peer.
P2PAccept(id) ==
    /\ listeners.p2p = "running"
    /\ Free(id)
    /\ budget.net > 0
    /\ budget' = [budget EXCEPT !.net = @ - 1]
    /\ SendsToCentral(Msg("IncomingP2PCreatedMSG", id, TRUE))
    /\ UNCHANGED <<ep, listeners, mcVars, gVars, sigint>>

\* P2PListener.listenerRoutine after Close() (peer.go:131-145, 319-334):
\* Accept returns without a connection (securecomm.go:236-247), the test of
\* sigCh never sets done (see P2PReaderCrash), and conn.RemoteAddr() on the
\* nil conn panics; recover reports the crash.
P2PListenerCrash ==
    /\ listeners.p2p = "closing"
    /\ listeners' = [listeners EXCEPT !.p2p = "exited"]
    /\ SendsToCentral(Msg("P2PListenerCrashedMSG", "none", FALSE))
    /\ UNCHANGED <<ep, mcVars, gVars, envVars>>

\* The goroutine of Run that waits for the interrupt signal
\* (message.go:2262-2266).
Interrupt ==
    /\ ~sigint
    /\ sigint' = TRUE
    /\ SendsToCentral(Msg("CentralCloseMSG", "none", FALSE))
    /\ UNCHANGED <<ep, listeners, mcVars, gVars, budget>>

(***************************************************************************)
(* The Membership Controller as the Central Controller sees it             *)
(* (src/src/gossip/membership_controller.go): the messages it sends for    *)
(* its view, its probes, and its end.  mcPending holds the messages of the *)
(* operation it is executing that it has not sent yet.                     *)
(***************************************************************************)
\* What a step of the Membership Controller leaves unchanged.
MCFrame ==
    UNCHANGED <<msgInQueue, viewList, awaitingRemovalViewList, activelyCreatedPeers,
                activelyProbedPeers, incomingViewList, apiClients, state, subs, ccStatus,
                taskVars, viewCap, mc, peerSampler, fed, sc, validated, lastRound, handed, cmdLog, gVars, sigint, lastDeleted>>

\* mrand.Perm(n)[:k] (membership_controller.go:362, 389, 416, 424) panics
\* when k exceeds n, the length and capacity of the permutation.
PermSlicePanics(n, k) == k > n

\* replaceViewList (membership_controller.go:300-329): a PeerRemoveMSG for
\* each peer that leaves the view, then a PeerAddMSG for each that enters.
ReplaceViewListMsgs(old, new) ==
    {[i \in 1..Len(r) |-> Msg("PeerRemoveMSG", r[i], FALSE)] \o
     [i \in 1..Len(a) |-> Msg("PeerAddMSG", a[i], FALSE)] :
        r \in Orderings(old \ new), a \in Orderings(new \ old)}

MembershipCrashed == Msg("MembershipCrashedMSG", "none", FALSE)

\* bootstrap (membership_controller.go:529-536): the view becomes the
\* bootstrapper, then pushRound and pullRound run on it; each slices a
\* permutation of the one view member to alphaSize and betaSize entries.
MCBootstrap ==
    /\ ccStatus = "running"
    /\ mcStatus = "init"
    /\ mcView' = {Bootstrapper}
    /\ IF \/ PermSlicePanics(1, alphaSize(viewCap))
          \/ PermSlicePanics(1, betaSize(viewCap))
         THEN /\ mcStatus' = "crashing"
              /\ mcPending' = <<Msg("PeerAddMSG", Bootstrapper, FALSE), MembershipCrashed>>
         ELSE /\ mcStatus' = "running"
              /\ mcPending' = <<Msg("PeerAddMSG", Bootstrapper, FALSE)>>
    /\ UNCHANGED <<mcInQueue, budget>>
    /\ MCFrame

\* A send of the Membership Controller on its MsgOutQueue, which is the
\* MsgInQueue of the Central Controller.
MCSend ==
    /\ ccStatus = "running"
    /\ mcPending # <<>>
    /\ Len(msgInQueue) < InQueueCap
    /\ msgInQueue' = Append(msgInQueue, Head(mcPending))
    /\ mcPending' = Tail(mcPending)
    /\ mcStatus' = IF Tail(mcPending) # <<>> THEN mcStatus
                   ELSE IF mcStatus = "crashing" THEN "crashed"
                   ELSE IF mcStatus = "closing" THEN "closed"
                   ELSE mcStatus
    /\ UNCHANGED <<viewList, awaitingRemovalViewList, activelyCreatedPeers,
                   activelyProbedPeers, incomingViewList, apiClients, state, subs, ccStatus,
                   taskVars, mcView, mcInQueue, viewCap, mc, peerSampler, fed, sc, validated, lastRound, handed, cmdLog, gVars, envVars, lastDeleted>>

\* The views updateRound can compute (membership_controller.go:403-431).
\* It runs with at most alphaSize push requests and a push request or a pull
\* reply, and joins the pushed peers, betaSize of the pull replies and
\* gammaSize of the sampled peers; the push requests, pull replies and
\* samples are whatever the network has delivered.
SubsetsOfSize(S, k) == {x \in SUBSET S : Cardinality(x) = k}
NewViews ==
    {push \cup pull \cup sample :
        push \in {x \in SUBSET Peers : Cardinality(x) <= alphaSize(viewCap)},
        pull \in SubsetsOfSize(Peers, betaSize(viewCap)),
        sample \in SubsetsOfSize(Peers, gammaSize(viewCap))} \ {{}}

\* membershipRound with an updateRound that replaces the view
\* (membership_controller.go:403-431, 518-525).
MCReplaceViewList(new) ==
    /\ ccStatus = "running"
    /\ mcStatus = "running"
    /\ mcPending = <<>>
    /\ budget.mc > 0
    /\ budget' = [budget EXCEPT !.mc = @ - 1]
    /\ mcView' = new
    /\ mcPending' \in ReplaceViewListMsgs(mcView, new)
    /\ UNCHANGED <<mcStatus, mcInQueue, sigint>>
    /\ MCFrame
MCUpdateRound == \E new \in NewViews \ {mcView} : MCReplaceViewList(new)

\* membershipRound when a round panics: pushRound or pullRound on a view
\* smaller than alphaSize or betaSize, updateRound with fewer than betaSize
\* pull replies or gammaSize samples (membership_controller.go:362, 389,
\* 416, 424).  recover (membership_controller.go:274-294) empties the queue
\* and reports the crash.
MCCrash ==
    /\ ccStatus = "running"
    /\ mcStatus = "running"
    /\ mcPending = <<>>
    /\ budget.mc > 0
    /\ budget' = [budget EXCEPT !.mc = @ - 1]
    /\ mcStatus' = "crashing"
    /\ mcInQueue' = <<>>
    /\ mcPending' = <<MembershipCrashed>>
    /\ UNCHANGED <<mcView, sigint>>
    /\ MCFrame

\* probePeerRound and updateSampleRound (membership_controller.go:435-513)
\* ask the Central Controller to probe a peer.
MCProbe(peer) ==
    /\ ccStatus = "running"
    /\ mcStatus = "running"
    /\ mcPending = <<>>
    /\ budget.mc > 0
    /\ budget' = [budget EXCEPT !.mc = @ - 1]
    /\ mcPending' = <<Msg("ProbePeerRequestMSG", peer, FALSE)>>
    /\ UNCHANGED <<mcStatus, mcView, mcInQueue, sigint>>
    /\ MCFrame

\* controllerRoutine takes a message (membership_controller.go:644-675):
\* peerDisconnectedHandler and probePeerReplyHandler call removePeer
\* (membership_controller.go:333-357, 540-564), closeHandler empties the
\* queue and acknowledges (membership_controller.go:629-642).
MCHandle ==
    /\ ccStatus = "running"
    /\ mcStatus = "running"
    /\ mcPending = <<>>
    /\ mcInQueue # <<>>
    /\ LET m == Head(mcInQueue)
           removes == \/ m.type = "PeerDisconnectedMSG"
                      \/ m.type = "ProbePeerReplyMSG" /\ ~m.flag
       IN
       IF m.type = "MembershipCloseMSG"
         THEN /\ mcInQueue' = <<>>
              /\ mcStatus' = "closing"
              /\ mcPending' = <<Msg("MembershipClosedMSG", "none", FALSE)>>
              /\ mcView' = mcView
         ELSE /\ mcInQueue' = Tail(mcInQueue)
              /\ mcStatus' = mcStatus
              /\ IF removes /\ m.id \in mcView
                   THEN /\ mcView' = mcView \ {m.id}
                        /\ mcPending' = <<Msg("PeerRemoveMSG", m.id, FALSE)>>
                   ELSE UNCHANGED <<mcView, mcPending>>
    /\ UNCHANGED budget
    /\ MCFrame

(***************************************************************************)
(* The Gossiper as the Central Controller sees it                          *)
(* (src/src/gossip/gossiper.go): it borrows peer lists and releases them.  *)
(***************************************************************************)
GFrame ==
    UNCHANGED <<viewList, awaitingRemovalViewList, activelyCreatedPeers,
                activelyProbedPeers, incomingViewList, apiClients, state, subs, ccStatus,
                taskVars, mcVars, gossiper, lent, promoted, invalidated, sigint, lastDeleted>>

\* announceHandler, checkAndAddIncomingGossip and pullRound ask for a random
\* peer list (gossiper.go:184-198, 326-366, 432-473).
GRequest(n) ==
    /\ ccStatus = "running"
    /\ gStatus = "running"
    /\ budget.g > 0
    /\ budget' = [budget EXCEPT !.g = @ - 1]
    /\ Len(msgInQueue) < InQueueCap
    /\ msgInQueue' = Append(msgInQueue, ListMsg("RandomPeerListRequestMSG", {}, n))
    /\ UNCHANGED <<gInQueue, gBorrowed, gStatus>>
    /\ GFrame

\* controllerRoutine takes a message (gossiper.go:548-578):
\* randomPeerListReplyHandler keeps the list (gossiper.go:302-322),
\* closeHandler empties the queue before it acknowledges
\* (gossiper.go:533-546).
GHandle ==
    /\ ccStatus = "running"
    /\ gStatus = "running"
    /\ gInQueue # <<>>
    /\ LET m == Head(gInQueue) IN
       IF m.type = "GossiperCloseMSG"
         THEN /\ gInQueue' = <<>>
              /\ gStatus' = "closing"
              /\ gBorrowed' = gBorrowed
         ELSE /\ gInQueue' = Tail(gInQueue)
              /\ gBorrowed' = IF m.type = "RandomPeerListReplyMSG" /\ m.list # {}
                                THEN Append(gBorrowed, m.list)
                                ELSE gBorrowed
              /\ gStatus' = gStatus
    /\ UNCHANGED <<msgInQueue, budget>>
    /\ GFrame

\* The last send of the Gossiper: GossiperClosedMSG from closeHandler
\* (gossiper.go:542-543), GossiperCrashedMSG from recover
\* (gossiper.go:121-126).
GSend ==
    /\ ccStatus = "running"
    /\ gStatus \in {"closing", "crashing"}
    /\ Len(msgInQueue) < InQueueCap
    /\ msgInQueue' = Append(msgInQueue,
                            Msg(IF gStatus = "closing" THEN "GossiperClosedMSG"
                                ELSE "GossiperCrashedMSG", "none", FALSE))
    /\ gStatus' = IF gStatus = "closing" THEN "closed" ELSE "crashed"
    /\ UNCHANGED <<gInQueue, gBorrowed, budget>>
    /\ GFrame

\* pushRound and randomPeerListReplyHandler release a list
\* (gossiper.go:168-172, 314-319).
GRelease ==
    /\ ccStatus = "running"
    /\ gStatus = "running"
    /\ gBorrowed # <<>>
    /\ Len(msgInQueue) < InQueueCap
    /\ msgInQueue' = Append(msgInQueue,
                            ListMsg("RandomPeerListReleaseMSG", Head(gBorrowed), 0))
    /\ gBorrowed' = Tail(gBorrowed)
    /\ UNCHANGED <<gInQueue, gStatus, budget>>
    /\ GFrame

\* A panic in the Gossiper: recover empties the queue before it reports
\* the crash (gossiper.go:108-128).
GCrash ==
    /\ ccStatus = "running"
    /\ gStatus = "running"
    /\ budget.g > 0
    /\ budget' = [budget EXCEPT !.g = @ - 1]
    /\ gInQueue' = <<>>
    /\ gStatus' = "crashing"
    /\ UNCHANGED <<msgInQueue, gBorrowed>>
    /\ GFrame

\* The Central Controller's management of its outgoing peers, with the
\* Membership Controller, the Gossiper, the dials and probes and the
\* endpoints of the outgoing peers.
Next ==
    \/ peerAddHandler
    \/ peerRemoveHandler
    \/ outgoingP2PCreatedHandler
    \/ probePeerRequestHandler
    \/ centralProbePeerReplyHandler
    \/ randomPeerListRequestHandler
    \/ randomPeerListReleaseHandler
    \/ membershipCrashedHandler
    \/ gossiperCrashedHandler
    \/ p2pEndpointCrashedHandler
    \/ p2pEndpointClosedHandler
    \/ \E peer \in Peers : DialDone(peer, TRUE) \/ DialDone(peer, FALSE)
    \/ \E peer \in Peers : ProbeDone(peer) \/ ProbeFailed(peer)
    \/ \E id \in Peers : P2PReaderCrash(id) \/ P2PWriterExit(id)
    \/ MCBootstrap
    \/ MCSend
    \/ MCUpdateRound
    \/ MCCrash
    \/ \E peer \in Peers : MCProbe(peer)
    \/ MCHandle
    \/ \E n \in 1..MaxNum : GRequest(n)
    \/ GHandle
    \/ GSend
    \/ GRelease
    \/ GCrash

Spec == Init /\ [][Next]_vars

(***************************************************************************)
(* Properties of the Central Controller's outgoing peers (Spec).           *)
(***************************************************************************)
\* A step of Run that takes a message of type t off the queue.
Handles(t) ==
    /\ ccStatus = "running"
    /\ msgInQueue # <<>>
    /\ Head(msgInQueue).type = t
    /\ \/ msgInQueue' = Tail(msgInQueue)
       \/ \E m \in {Msg("PeerRemoveMSG", Head(msgInQueue).id, FALSE),
                    Msg("PeerAddMSG", Head(msgInQueue).id, FALSE)} :
            msgInQueue' = Append(Tail(msgInQueue), m)

\* C1: the record of an outgoing peer is deleted only when its reader and
\* its writer are both STOPPED and either the node is stopping or the
\* record is in the awaiting-removal list with no user left; a record with
\* users is never deleted while the node is not stopping.  Every step in
\* which a record disappears is a deletion that satisfies this.
C1_DeletedOnlyWhenStoppedAndUnused ==
    [][\A p \in Peers :
         (p \in OutgoingRecords /\ p \notin OutgoingRecords')
           => /\ lastDeleted'.peer = p
              /\ lastDeleted'.readerState = "STOPPED"
              /\ lastDeleted'.writerState = "STOPPED"
              /\ \/ lastDeleted'.isStopping
                 \/ lastDeleted'.usageCounter <= 0 /\ lastDeleted'.isInRemovalList]_vars

\* C1, witness: the Membership Controller's removal of a peer that the
\* Gossiper still uses has been handled, and the record is kept.
C1_Witness ==
    \E p \in DOMAIN awaitingRemovalViewList :
        awaitingRemovalViewList[p].usageCounter > 0 /\ ~state.isStopping

\* A message about endpoint p is waiting in the Central Controller's queue.
ReportPending(p) ==
    \E i \in 1..Len(msgInQueue) :
        /\ msgInQueue[i].id = p
        /\ msgInQueue[i].type \in {"P2PEndpointClosedMSG", "P2PEndpointCrashedMSG"}

\* C4: a view peer evicted while its usageCounter is positive waits in the
\* awaiting-removal list; when releases bring the counter to zero its
\* endpoint is closed and, once both halves have stopped and their reports
\* have been handled, its record is removed.  Stated on the state after the
\* last report: no record without users stays in the awaiting-removal list
\* with a closed endpoint whose reader and writer have both ended.
C4_RemovedOnceReleasedAndStopped ==
    \A p \in DOMAIN awaitingRemovalViewList :
        ~ /\ awaitingRemovalViewList[p].usageCounter <= 0
          /\ ep[p].closed
          /\ ep[p].reader = "exit"
          /\ ep[p].writer = "exit"
          /\ ~ReportPending(p)
          /\ ccStatus = "running"

\* C5: every peer in the Central Controller's view has an established
\* connection; a peer whose dial or handshake failed is never in the view.
C5_ViewPeersAreConnected ==
    \A p \in DOMAIN viewList : ep[p].conn = "ok"

\* The node whose view holds 2 of the 3 addresses (SpecView): the same
\* steps as Spec.
InitView ==
    /\ InitNode(NewGossiper, {TinyMaxPeers})
    /\ peerSampler = NewPeerSampler(CHOOSE f \in Permuters : TRUE)
    /\ sc = NewSecureConn(TRUE)
    /\ validated = NoValidation
    /\ budget = [mc |-> MaxMCSteps, g |-> MaxGSteps, net |-> MaxNetSteps, rounds |-> 0]

SpecView == InitView /\ [][Next]_vars

\* The Membership Controller has ordered the removal of p and the Central
\* Controller has not handled the order yet.
RemovalPending(p) ==
    \/ \E i \in 1..Len(msgInQueue) : msgInQueue[i] = Msg("PeerRemoveMSG", p, FALSE)
    \/ \E i \in 1..Len(mcPending) : mcPending[i] = Msg("PeerRemoveMSG", p, FALSE)

C7_ReaderCrashFlaggedAndClosed ==
    [][\A p \in Peers :
         (/\ Handles("P2PEndpointCrashedMSG")
          /\ Head(msgInQueue).id = p
          /\ Head(msgInQueue).flag
          /\ p \in DOMAIN viewList)
           => /\ ep'[p].closed
              /\ p \in DOMAIN viewList' => viewList'[p].hasCrashed]_vars

(***************************************************************************)
(* The shutdown of the node (SpecClose): the interrupt, closeHandler, the  *)
(* acknowledgements of the controllers, the listeners and the endpoints,   *)
(* and the watchdog.  The Membership Controller bootstraps and the         *)
(* Gossiper serves its queue; the network accepts API clients and breaks   *)
(* connections MaxCloseNetSteps times.                                     *)
(***************************************************************************)
InitClose ==
    /\ InitProgram
    /\ budget = [mc |-> 0, g |-> 0, net |-> MaxCloseNetSteps, rounds |-> 0]

NextClose ==
    \/ peerAddHandler
    \/ peerRemoveHandler
    \/ outgoingP2PCreatedHandler
    \/ membershipCrashedHandler
    \/ membershipClosedHandler
    \/ gossiperClosedHandler
    \/ apiListenerClosedHandler
    \/ apiEndpointCreatedHandler
    \/ apiEndpointCrashedHandler
    \/ apiEndpointClosedHandler
    \/ p2pListenerCrashedHandler
    \/ p2pEndpointCrashedHandler
    \/ p2pEndpointClosedHandler
    \/ closeHandler
    \/ crashHandler
    \/ RunDrop
    \/ WatchdogFire
    \/ Interrupt
    \/ \E peer \in Peers : DialDone(peer, TRUE) \/ DialDone(peer, FALSE)
    \/ \E id \in Peers : P2PReaderCrash(id) \/ P2PWriterExit(id)
    \/ \E id \in Clients : APIAccept(id)
    \/ \E id \in Clients : APIReaderExit(id) \/ APIReaderCrash(id) \/ APIWriterExit(id)
    \/ APIListenerExit
    \/ P2PListenerCrash
    \/ MCBootstrap
    \/ MCSend
    \/ MCHandle
    \/ GHandle
    \/ GSend

SpecClose == InitClose /\ [][NextClose]_vars

\* C9: once CentralCloseMSG has been handled the Central Controller always
\* terminates, gracefully or through the watchdog's CentralCrashMSG; it is
\* never left running or blocked for ever.  Stated on finite runs: while
\* the node is stopping and the Central Controller has not terminated, some
\* goroutine of the node can take a step.
C9_StoppingNeverStuck ==
    (state.isStopping /\ ccStatus = "running") => ENABLED NextClose

(***************************************************************************)
(* The Gossiper (src/src/gossip/gossiper.go), SpecG.  Its MsgOutQueue is   *)
(* the Central Controller's msgInQueue and its MsgInQueue is gInQueue.     *)
(* Only the messages about peer lists and the crash report are put on      *)
(* msgInQueue: GossipPushMSG, GossipPullRequestMSG, GossipPullReplyMSG and *)
(* GossipNotificationMSG change nothing in the Gossiper and are left out.  *)
(* There is one data type, so a registered client is interested in every   *)
(* item.  An item of value "nil" is the nil pointer.                       *)
(***************************************************************************)
GMsg(t, item, num, valid, st, list) ==
    [type |-> t, item |-> item, num |-> num, valid |-> valid, state |-> st, list |-> list]
Request(related, num) == GMsg("RandomPeerListRequestMSG", related, num, FALSE, "none", {})
Reply(related, list) == GMsg("RandomPeerListReplyMSG", related, 0, FALSE, "none", list)
Release(list) == GMsg("RandomPeerListReleaseMSG", "nil", 0, FALSE, "none", list)
GossiperCrashed == Msg("GossiperCrashedMSG", "none", FALSE)

\* uint8 arithmetic of GossipItemState.counter and .ttl (part_011:47-52).
Dec8(n) == (n + 255) % 256
Inc8(n) == (n + 1) % 256
\* uint16 arithmetic of nextAvailableID.
Inc16(n) == (n + 1) % 65536

\* degree and mcConfig of the Gossiper (gossiper.go:88, 91, 94).
degree == gossiper.degree
bMax == gossiper.mcConfig.bMax
cMax == gossiper.mcConfig.cMax

\* A new entry of gossipList (gossiper.go:237-252, 358-360): no peer list
\* yet.
NewItemInfo(st, counter, ttl) ==
    [state |-> st, counter |-> counter, medianRule |-> 0, ttl |-> ttl, peerList |-> {}]

\* GossipItemState.Cmp (part_011:71-80): by state, then by counter.
StateOrder(st) == IF st = "B" THEN 0 ELSE IF st = "C" THEN 1 ELSE 2
CmpByCounter(ls, rs) ==
    IF ls.counter > rs.counter THEN 1 ELSE IF ls.counter < rs.counter THEN -1 ELSE 0
Cmp(ls, rs) ==
    LET lsVal == StateOrder(ls.state) * 256 + ls.counter
        rsVal == StateOrder(rs.state) * 256 + rs.counter
    IN IF lsVal > rsVal THEN 1 ELSE IF lsVal < rsVal THEN -1 ELSE 0

\* GossipItemInfoGossiper.UpdateItemInfo (part_011:85-103).
UpdateItemInfo(info, newInfo) ==
    IF info.state = "B"
      THEN IF newInfo.state = "B"
             THEN [info EXCEPT !.medianRule = IF newInfo.counter >= info.counter
                                                THEN @ + 1 ELSE @ - 1]
           ELSE IF newInfo.state = "C"
             THEN [info EXCEPT !.state = "C", !.counter = 0, !.medianRule = 0]
           ELSE info
      ELSE info

\* notifyClients (gossiper.go:202-214): every registered client gets a
\* notification and an entry of its validationMap that holds the pointer
\* ref.
notifyClients(clients, ref) ==
    [c \in DOMAIN clients |->
        [validationMap |-> Put(clients[c].validationMap, clients[c].nextAvailableID, ref),
         nextAvailableID |-> Inc16(clients[c].nextAvailableID)]]

\* What the Gossiper's steps leave unchanged.
GossiperFrame ==
    UNCHANGED <<viewList, awaitingRemovalViewList, activelyCreatedPeers,
                activelyProbedPeers, incomingViewList, apiClients, state, subs, ccStatus,
                taskVars, mcVars, gBorrowed, sigint, lastDeleted>>

\* The item a pointer to the loop variable of "for item := range m" refers
\* to once the loop has ended: the key iterated last, in the random order
\* of the map.
LastOf(keys) == IF keys = {} THEN {"nil"} ELSE keys

\* One iteration of the first loop of pushRound (gossiper.go:153-162).
Aged(info) ==
    LET t == Dec8(info.ttl) IN
    IF t = 0 THEN [info EXCEPT !.ttl = 0]
    ELSE IF info.state = "C" THEN [info EXCEPT !.ttl = t, !.counter = Inc8(@)]
    ELSE [info EXCEPT !.ttl = t]
Retires(info) ==
    Aged(info).ttl = 0 \/ (info.state = "C" /\ Aged(info).counter >= cMax)

\* pushRound (gossiper.go:132-180).  itemsToRemove holds one &item for each
\* retiring item, and every one of them points to the loop variable: the
\* second loop releases and deletes the item iterated last, once for each
\* retiring item, and the second time gossipList[*itemToRemove] is nil and
\* its peerList is a nil dereference.
pushRound(gs, last) ==
    LET gl == [i \in DOMAIN gs.gossipList |-> Aged(gs.gossipList[i])]
        n == Cardinality({i \in DOMAIN gs.gossipList : Retires(gs.gossipList[i])})
    IN
    IF n = 0
      THEN [g |-> [gs EXCEPT !.gossipList = gl], out |-> <<>>, panics |-> FALSE]
      ELSE [g |-> [gs EXCEPT !.gossipList = Remove(gl, last),
                             !.oldGossipList = Put(@, last, maxTTL)],
            out |-> <<Release(gl[last].peerList)>>,
            panics |-> n >= 2]

\* pullRound (gossiper.go:184-198).
pullRound(gs) ==
    [g |-> [gs EXCEPT !.pullPeers = gs.nextRoundPullPeers, !.nextRoundPullPeers = {}],
     out |-> <<Request("nil", degree)>>]

\* One iteration of the first loop of updateRound (gossiper.go:221-255);
\* ref is what &item refers to after the loop.
UpdateOne(acc, item, ref) ==
    LET g == acc.g
        info == g.incomingGossips[item]
        g1 == [g EXCEPT !.apiClientsToNotify = notifyClients(@, ref)]
    IN
    IF item \in DOMAIN g.oldGossipList THEN acc
    ELSE IF item \in DOMAIN g.gossipList
      THEN [acc EXCEPT !.g.gossipList[item] = UpdateItemInfo(@, info)]
    ELSE IF Cardinality(DOMAIN g.gossipList) >= cacheSize THEN [acc EXCEPT !.g = g1]
    ELSE IF info.state = "B"
      THEN [g |-> [g1 EXCEPT !.gossipList = Put(@, item, NewItemInfo("B", 1, maxTTL))],
            out |-> Append(acc.out, Request(ref, degree * maxTTL))]
    ELSE [g |-> [g1 EXCEPT !.gossipList = Put(@, item, NewItemInfo("C", 0, maxTTL))],
          out |-> Append(acc.out, Request(ref, degree * cMax))]

RECURSIVE UpdateLoop(_, _, _)
UpdateLoop(acc, order, ref) ==
    IF order = <<>> THEN acc
    ELSE UpdateLoop(UpdateOne(acc, Head(order), ref), Tail(order), ref)

StuckMedianRule(info) == [info EXCEPT !.medianRule = 0]
\* The median rule of updateRound (gossiper.go:258-271).
MedianRule(info) ==
    IF info.state # "B" THEN info
    ELSE IF info.medianRule <= 0 THEN [info EXCEPT !.medianRule = 0]
    ELSE IF Inc8(info.counter) = bMax
      THEN [info EXCEPT !.state = "C", !.counter = 0, !.medianRule = 0]
    ELSE [info EXCEPT !.counter = Inc8(@), !.medianRule = 0]

\* updateRound (gossiper.go:220-272), iterating incomingGossips in order.
updateRound(gs, order) ==
    LET ref == IF order = <<>> THEN "nil" ELSE order[Len(order)]
        acc == UpdateLoop([g |-> gs, out |-> <<>>], order, ref)
    IN
    [g |-> [acc.g EXCEPT !.incomingGossips = EmptyMap,
                         !.gossipList = [i \in DOMAIN @ |-> MedianRule(@[i])]],
     out |-> acc.out]

\* The items the median rule of updateRound moves from state B to state C.
Promoted(gs, order) ==
    LET ref == IF order = <<>> THEN "nil" ELSE order[Len(order)]
        acc == UpdateLoop([g |-> gs, out |-> <<>>], order, ref)
    IN {i \in DOMAIN acc.g.gossipList :
          acc.g.gossipList[i].state = "B" /\ MedianRule(acc.g.gossipList[i]).state = "C"}

\* updateOldGossipsRound (gossiper.go:276-288): the second loop deletes
\* the old item iterated last, once for each old item whose ttl reached 0.
updateOldGossipsRound(gs, last) ==
    LET old == [i \in DOMAIN gs.oldGossipList |-> Dec8(gs.oldGossipList[i])]
    IN
    IF \E i \in DOMAIN old : old[i] = 0
      THEN [gs EXCEPT !.oldGossipList = Remove(old, last)]
      ELSE [gs EXCEPT !.oldGossipList = old]

\* gossipRound (gossiper.go:292-298), run by the round ticker of
\* controllerRoutine; a panic is caught by recover (gossiper.go:108-128).
gossipRound ==
    /\ ccStatus = "running"
    /\ gStatus = "running"
    /\ budget.rounds > 0
    /\ budget' = [budget EXCEPT !.rounds = @ - 1]
    /\ \E last \in LastOf(DOMAIN gossiper.gossipList) :
         LET p == pushRound(gossiper, last) IN
         IF p.panics
           THEN /\ gossiper' = p.g
                /\ msgInQueue' = msgInQueue \o p.out \o <<GossiperCrashed>>
                /\ gInQueue' = <<>>
                /\ gStatus' = "crashed"
                /\ promoted' = {}
           ELSE LET q == pullRound(p.g) IN
                \E order \in Orderings(DOMAIN q.g.incomingGossips) :
                  LET u == updateRound(q.g, order) IN
                  \E lastOld \in LastOf(DOMAIN u.g.oldGossipList) :
                    /\ gossiper' = updateOldGossipsRound(u.g, lastOld)
                    /\ msgInQueue' = msgInQueue \o p.out \o q.out \o u.out
                    /\ promoted' = Promoted(q.g, order)
                    /\ UNCHANGED <<gInQueue, gStatus>>
    /\ invalidated' = LET aged == [i \in DOMAIN invalidated |-> invalidated[i] + 1]
                      IN [i \in {j \in DOMAIN aged : aged[j] < maxTTL} |-> aged[i]]
    /\ UNCHANGED lent
    /\ GossiperFrame

\* controllerRoutine takes a message of type t from MsgInQueue
\* (gossiper.go:561-575).
GTakes(t) ==
    /\ ccStatus = "running"
    /\ gStatus = "running"
    /\ gInQueue # <<>>
    /\ Head(gInQueue).type = t
    /\ gInQueue' = Tail(gInQueue)
    /\ UNCHANGED <<gStatus, lent, promoted, budget>>
    /\ GossiperFrame

\* randomPeerListReplyHandler (gossiper.go:302-322).
randomPeerListReplyHandler ==
    /\ GTakes("RandomPeerListReplyMSG")
    /\ UNCHANGED invalidated
    /\ LET reply == Head(gInQueue) IN
       IF reply.item = "nil"
         THEN /\ gossiper' = [gossiper EXCEPT !.nextRoundPullPeers = @ \cup reply.list]
              /\ UNCHANGED msgInQueue
       ELSE IF reply.item \in DOMAIN gossiper.gossipList
         THEN /\ gossiper' = [gossiper EXCEPT !.gossipList[reply.item].peerList = reply.list]
              /\ UNCHANGED msgInQueue
       ELSE /\ msgInQueue' = Append(msgInQueue, Release(reply.list))
            /\ UNCHANGED gossiper

\* The two tests of announceHandler (gossiper.go:340-349): the gossipList
\* has space, and the item is neither old nor in the gossipList.
AdmitsWhenFull(gs, item) ==
    item \notin DOMAIN gs.oldGossipList /\ item \notin DOMAIN gs.gossipList
AnnounceAdmits(gs, item) ==
    /\ ~(Cardinality(DOMAIN gs.gossipList) >= cacheSize)
    /\ item \notin DOMAIN gs.oldGossipList
    /\ item \notin DOMAIN gs.gossipList

\* The TTL of an announced item (gossiper.go:351-357).
AnnounceTTL(t) == IF t # 0 THEN Min(t, maxTTL) ELSE maxTTL

\* announceHandler (gossiper.go:326-366).
announceHandler ==
    /\ GTakes("GossipAnnounceMSG")
    /\ UNCHANGED invalidated
    /\ LET anno == Head(gInQueue)
           notified == [gossiper EXCEPT !.apiClientsToNotify = notifyClients(@, anno.item)]
           ttl == AnnounceTTL(anno.num)
       IN
       IF ~AnnounceAdmits(gossiper, anno.item)
         THEN /\ gossiper' = notified
              /\ UNCHANGED msgInQueue
         ELSE /\ gossiper' = [notified EXCEPT
                                !.gossipList = Put(@, anno.item, NewItemInfo("B", 1, ttl))]
              /\ msgInQueue' = Append(msgInQueue, Request(anno.item, degree * ttl))

\* notifyHandler (gossiper.go:370-387), for the one data type.
notifyHandler ==
    /\ GTakes("GossipNotifyMSG")
    /\ UNCHANGED invalidated
    /\ LET who == Head(gInQueue).item IN
       gossiper' = IF who \in DOMAIN gossiper.apiClientsToNotify THEN gossiper
                   ELSE [gossiper EXCEPT !.apiClientsToNotify =
                           Put(@, who, [validationMap |-> EmptyMap, nextAvailableID |-> 0])]
    /\ UNCHANGED msgInQueue

\* validationHandler (gossiper.go:403-425); the client is in the state
\* field of the message.
validationHandler ==
    /\ GTakes("GossipValidationMSG")
    /\ LET val == Head(gInQueue)
           who == val.state
           known == /\ who \in DOMAIN gossiper.apiClientsToNotify
                    /\ val.num \in DOMAIN gossiper.apiClientsToNotify[who].validationMap
       IN
       IF ~known THEN UNCHANGED gossiper
       ELSE LET item == gossiper.apiClientsToNotify[who].validationMap[val.num]
                forgotten == [gossiper EXCEPT
                                !.apiClientsToNotify[who].validationMap = Remove(@, val.num)]
            IN
            gossiper' = IF val.valid THEN forgotten
                        ELSE [forgotten EXCEPT
                                !.gossipList = Remove(@, item),
                                !.incomingGossips = Remove(@, item),
                                !.oldGossipList = Put(@, item, maxTTL)]
    /\ invalidated' = LET val == Head(gInQueue) IN
                      IF /\ ~val.valid
                         /\ val.state \in DOMAIN gossiper.apiClientsToNotify
                         /\ val.num \in DOMAIN gossiper.apiClientsToNotify[val.state].validationMap
                        THEN Put(invalidated,
                                 gossiper.apiClientsToNotify[val.state].validationMap[val.num], 0)
                        ELSE invalidated
    /\ UNCHANGED msgInQueue

CountingCheckAndAdd(incoming, itemExt) ==
    IF itemExt.item \in DOMAIN incoming
      THEN [incoming EXCEPT ![itemExt.item].counter = (@ + 1) % 256]
      ELSE Put(incoming, itemExt.item, [state |-> itemExt.state, counter |-> itemExt.num])
\* checkAndAddIncomingGossip (gossiper.go:432-473): the incomingGossips
\* after an item with the given state and counter has come in.
checkAndAddIncomingGossip(incoming, itemExt) ==
    LET accepted == \/ itemExt.state = "B" /\ itemExt.num < bMax
                    \/ itemExt.state = "C" /\ itemExt.num < cMax
        newInfo == [state |-> itemExt.state,
                    counter |-> IF itemExt.state = "B" THEN itemExt.num ELSE 0]
    IN
    IF ~accepted THEN incoming
    ELSE IF itemExt.item \notin DOMAIN incoming THEN Put(incoming, itemExt.item, newInfo)
    ELSE IF Cmp(incoming[itemExt.item], newInfo) < 0 THEN Put(incoming, itemExt.item, newInfo)
    ELSE incoming

\* The test of incomingPushHandler (gossiper.go:483): incomingGossips is
\* already full.
ActiveCacheFull(gs) == Cardinality(DOMAIN gs.gossipList) >= cacheSize
IncomingFull(gs) == Cardinality(DOMAIN gs.incomingGossips) >= cacheSize

\* incomingPushHandler (gossiper.go:477-487): the Gossiper after the push
\* itemExt has been handled.
AfterIncomingPush(gs, itemExt) ==
    IF IncomingFull(gs) THEN gs
    ELSE [gs EXCEPT !.incomingGossips = checkAndAddIncomingGossip(@, itemExt)]

\* The loop of incomingPullReplyHandler (gossiper.go:520-525): the entries
\* of the reply go through checkAndAddIncomingGossip while upTo is positive,
\* and upTo counts down with each entry that was added as a new item (the
\* only case in which checkAndAddIncomingGossip returns nil).
RECURSIVE MergesAll(_, _, _)
MergesAll(incoming, itemList, upTo) ==
    IF itemList = <<>> THEN incoming
    ELSE MergesAll(checkAndAddIncomingGossip(incoming, Head(itemList)), Tail(itemList), upTo)
RECURSIVE PullMerge(_, _, _)
PullMerge(incoming, itemList, upTo) ==
    IF itemList = <<>> \/ upTo <= 0 THEN incoming
    ELSE LET next == checkAndAddIncomingGossip(incoming, Head(itemList))
             added == Head(itemList).item \notin DOMAIN incoming
                      /\ Head(itemList).item \in DOMAIN next
         IN PullMerge(next, Tail(itemList), IF added THEN upTo - 1 ELSE upTo)

\* incomingPullReplyHandler of the Gossiper (gossiper.go:510-529); the
\* sender is in the item field of the message and ItemList in its list.
gossipIncomingPullReplyHandler ==
    /\ GTakes("GossipIncomingPullReplyMSG")
    /\ UNCHANGED <<invalidated, msgInQueue>>
    /\ LET reply == Head(gInQueue)
           upTo == cacheSize - Cardinality(DOMAIN gossiper.incomingGossips)
       IN
       gossiper' = IF reply.item \notin gossiper.pullPeers THEN gossiper
                   ELSE [gossiper EXCEPT
                           !.incomingGossips = PullMerge(@, reply.list, upTo),
                           !.pullPeers = @ \ {reply.item}]

incomingPushHandler ==
    /\ GTakes("GossipIncomingPushMSG")
    /\ UNCHANGED invalidated
    /\ gossiper' = AfterIncomingPush(gossiper, Head(gInQueue))
    /\ UNCHANGED msgInQueue

\* The pushes of the remote peers, forwarded by incomingP2PHandler
\* (message.go:2172-2195), as payloads of the type GossipItemExtended that
\* incomingPushHandler asserts (gossiper.go:478).  The reader of a P2P
\* endpoint wraps a push as *GossipItemExtended (peer.go:226-228), which the
\* handler drops without a change of state; such a message is a step that
\* only shortens the queue and is not among these inputs.
IncomingPushes ==
    {GMsg("GossipIncomingPushMSG", i, c, FALSE, st, {}) :
       i \in GItems, c \in {0, 1}, st \in {"B", "C"}}

\* The messages the Central Controller forwards to the Gossiper from the
\* API clients and the remote peers (message.go:1501-1605).
GossipInputs ==
    {GMsg("GossipAnnounceMSG", i, t, FALSE, "none", {}) : i \in GItems, t \in {0, 1}}
    \cup {GMsg("GossipNotifyMSG", "a1", 0, FALSE, "none", {})}
    \cup {GMsg("GossipValidationMSG", "nil", 0, v, "a1", {}) : v \in BOOLEAN}
    \cup IncomingPushes

CentralForwards(m) ==
    /\ ccStatus = "running"
    /\ budget.g > 0
    /\ budget' = [budget EXCEPT !.g = @ - 1]
    /\ Len(gInQueue) < OutQueueCap
    /\ gInQueue' = Append(gInQueue, m)
    /\ UNCHANGED <<msgInQueue, gStatus, gossiper, lent, promoted, invalidated>>
    /\ GossiperFrame

\* The Central Controller answers a RandomPeerListRequestMSG with at most
\* Num peers of its view and counts them as used (message.go:1427-1455).
CentralLendsList(list) ==
    /\ Receives("RandomPeerListRequestMSG")
    /\ msgInQueue' = Tail(msgInQueue)
    /\ Len(gInQueue) < OutQueueCap
    /\ Cardinality(list) <= Head(msgInQueue).num
    /\ gInQueue' = Append(gInQueue, Reply(Head(msgInQueue).item, list))
    /\ lent' = IF list = {} THEN lent ELSE [lent EXCEPT ![list] = @ + 1]
    /\ UNCHANGED <<gStatus, gossiper, budget, promoted, invalidated>>
    /\ GossiperFrame
CentralLends == \E list \in SUBSET GossipPeers : CentralLendsList(list)

\* The Central Controller takes a RandomPeerListReleaseMSG
\* (message.go:1459-1497).
CentralTakesBack ==
    /\ Receives("RandomPeerListReleaseMSG")
    /\ msgInQueue' = Tail(msgInQueue)
    /\ lent' = IF Head(msgInQueue).list = {} THEN lent
               ELSE [lent EXCEPT ![Head(msgInQueue).list] = @ - 1]
    /\ UNCHANGED <<gInQueue, gStatus, gossiper, budget, promoted, invalidated>>
    /\ GossiperFrame

InitG ==
    /\ InitProgram
    /\ budget = [mc |-> 0, g |-> MaxGossipInputs, net |-> 0, rounds |-> MaxGossipRounds]

NextG ==
    \/ gossipRound
    \/ randomPeerListReplyHandler
    \/ announceHandler
    \/ notifyHandler
    \/ validationHandler
    \/ incomingPushHandler
    \/ \E m \in GossipInputs : CentralForwards(m)
    \/ CentralLends
    \/ CentralTakesBack
    \/ gossiperCrashedHandler

SpecG == InitG /\ [][NextG]_vars

(***************************************************************************)
(* Properties of the Gossiper (SpecG).                                     *)
(***************************************************************************)
\* The Gossiper holds no active item and no message about a peer list is
\* on its way in either direction.
GossiperIdle ==
    /\ ccStatus = "running"
    /\ gStatus = "running"
    /\ gossiper.gossipList = EmptyMap
    /\ gossiper.nextRoundPullPeers = {}
    /\ msgInQueue = <<>>
    /\ gInQueue = <<>>

\* C2: every RandomPeerListRequestMSG of the Gossiper, for an item or for
\* the pull peers of a round, is followed by exactly one
\* RandomPeerListReleaseMSG with the peers the Central Controller returned.
\* Stated on finite runs: when the Gossiper holds no active item and no
\* pull peers for its next round, and no request, reply or release is on
\* its way, no list is lent and not released, and none has been released
\* more often than lent.
C2_EveryLentListReleased ==
    GossiperIdle => \A l \in DOMAIN lent : lent[l] = 0

\* C3: whenever an item leaves gossipList, because its ttl reached 0, its
\* counter reached cMax in state C or a client found it invalid, the
\* Gossiper sends in that step one RandomPeerListReleaseMSG with exactly
\* the peerList of that item (an item whose peer list has not arrived yet
\* has nothing to release).
C3_ReleaseWhenItemLeaves ==
    [][\A item \in GItems :
         (/\ item \in DOMAIN gossiper.gossipList
          /\ item \notin DOMAIN gossiper'.gossipList
          /\ gossiper.gossipList[item].peerList # {})
           => Cardinality({i \in (Len(msgInQueue) + 1)..Len(msgInQueue') :
                             msgInQueue'[i] = Release(gossiper.gossipList[item].peerList)}) = 1]_vars

(***************************************************************************)
(* The Membership Controller                                               *)
(* (src/src/gossip/membership_controller.go), SpecMC.  Its viewList is     *)
(* mcView, its MsgInQueue is mcInQueue and its MsgOutQueue is the Central  *)
(* Controller's msgInQueue, which here keeps every message sent.           *)
(***************************************************************************)
MembershipFrame ==
    UNCHANGED <<viewList, awaitingRemovalViewList, activelyCreatedPeers,
                activelyProbedPeers, incomingViewList, apiClients, state, subs, ccStatus,
                taskVars, mcPending, viewCap, peerSampler, fed, sc, validated, handed, cmdLog, gVars, sigint, lastDeleted>>

\* One message for each peer of the set, in any order.
MsgsTo(t, peers) ==
    {[i \in 1..Len(o) |-> Msg(t, o[i], FALSE)] : o \in Orderings(peers)}

\* The peers at the indexes mrand.Perm(n)[:k] of a set of n peers.
PermSlice(peers, k) == SubsetsOfSize(peers, k)

\* pushRound (membership_controller.go:361-383): each of alphaSize peers
\* of the view is sent a push request with probability pushProbability.
membershipPushRound(view, pushProbability) ==
    IF PermSlicePanics(Cardinality(view), alphaSize(viewCap))
      THEN {[panics |-> TRUE, out |-> <<>>]}
      ELSE {[panics |-> FALSE, out |-> o] :
              o \in UNION {MsgsTo("MembershipPushRequestMSG", pushed) :
                             pushed \in IF pushProbability = "zero" THEN {{}}
                                        ELSE UNION {SUBSET c :
                                               c \in PermSlice(view, alphaSize(viewCap))}}}

\* pullRound (membership_controller.go:387-398).
membershipPullRound(view) ==
    IF PermSlicePanics(Cardinality(view), betaSize(viewCap))
      THEN {[panics |-> TRUE, out |-> <<>>, pullPeers |-> {}]}
      ELSE UNION {{[panics |-> FALSE, out |-> o, pullPeers |-> c] :
                     o \in MsgsTo("MembershipPullRequestMSG", c)} :
                  c \in PermSlice(view, betaSize(viewCap))}

\* updateRound (membership_controller.go:408-429): the new view holds the
\* pushed peers, betaSize of the pulled peers and gammaSize of the sampled
\* peers, and replaces the old one.
NewViewLists(view, m, pushed) ==
    IF \/ PermSlicePanics(Cardinality(m.pullReplies), betaSize(viewCap))
       \/ PermSlicePanics(Cardinality(DOMAIN m.sampleList), gammaSize(viewCap))
      THEN {[panics |-> TRUE, out |-> <<>>, view |-> view]}
    ELSE UNION {{[panics |-> FALSE, out |-> o, view |-> pushed \cup pulled \cup sampled] :
                   o \in ReplaceViewListMsgs(view, pushed \cup pulled \cup sampled)} :
                pulled \in PermSlice(m.pullReplies, betaSize(viewCap)),
                sampled \in PermSlice(DOMAIN m.sampleList, gammaSize(viewCap))}

\* An update phase that drops the pushed peers when they are too many and
\* builds the view from the pulled and the sampled peers.
DiscardsOnlyPushes(view, m) ==
    IF m.pushRequests = {} /\ m.pullReplies = {}
      THEN {[panics |-> FALSE, out |-> <<>>, view |-> view]}
    ELSE NewViewLists(view, m, IF Cardinality(m.pushRequests) <= alphaSize(viewCap)
                                 THEN m.pushRequests ELSE {})

\* updateRound (membership_controller.go:403-431).
membershipUpdateRound(view, m) ==
    IF ~ /\ Cardinality(m.pushRequests) <= alphaSize(viewCap)
         /\ m.pushRequests # {} \/ m.pullReplies # {}
      THEN {[panics |-> FALSE, out |-> <<>>, view |-> view]}
    ELSE NewViewLists(view, m, m.pushRequests)

\* The number of peer samplers in the sets of a sampleList.
RECURSIVE SamplerCount(_)
SamplerCount(sampleList) ==
    IF DOMAIN sampleList = {} THEN 0
    ELSE LET k == CHOOSE x \in DOMAIN sampleList : TRUE
         IN  sampleList[k] + SamplerCount(Remove(sampleList, k))

\* updateSampleRound (membership_controller.go:448-459): a new sampler is
\* created for each unit of remaining capacity and kept if NextSet gave it a
\* peer, which it does when there are new peers.
NewPeerSamplers(m, newPeers) ==
    IF newPeers = {} THEN 0 ELSE m.sampleListRemainingCap

\* updateSampleRound (membership_controller.go:461).
KeepsRemainingCap(cap, created) == cap
RemainingCapAfter(cap, created) == cap - created

\* updateSampleRound (membership_controller.go:463-501): every new sampler
\* holds one of the pushed and pulled peers, every old sampler keeps its
\* peer or takes one of them (whichever its permuter ranks lowest), and a
\* peer is a key while a sampler holds it.
SampleLists(m, newPeers) ==
    LET old == m.sampleList
        total == SamplerCount(old) + NewPeerSamplers(m, newPeers)
        keys == DOMAIN old \cup newPeers
        counts == {f \in [keys -> 0..total] :
                     /\ SamplerCount(f) = total
                     /\ \A k \in keys \ newPeers : f[k] <= old[k]}
    IN  {[k \in {x \in keys : f[x] > 0} |-> f[k]] : f \in counts}

\* recover (membership_controller.go:274-294) after the messages out have
\* been sent.
MembershipPanics(out) ==
    /\ msgInQueue' = msgInQueue \o out \o <<MembershipCrashed>>
    /\ mcInQueue' = <<>>
    /\ mcStatus' = "crashed"

\* controllerRoutine starts with bootstrap (membership_controller.go:529-536,
\* 646).  The push probability is 0.0, so pushRound sends nothing.
bootstrap ==
    /\ ccStatus = "running"
    /\ mcStatus = "init"
    /\ \E r \in ReplaceViewListMsgs(mcView, {Bootstrapper}),
          push \in membershipPushRound({Bootstrapper}, "zero"),
          pull \in membershipPullRound({Bootstrapper}) :
         /\ mcView' = {Bootstrapper}
         /\ IF push.panics THEN MembershipPanics(r) /\ mc' = mc
            ELSE IF pull.panics
              THEN MembershipPanics(r \o push.out)
                   /\ mc' = [mc EXCEPT !.pushProbability = "positive"]
            ELSE /\ msgInQueue' = msgInQueue \o r \o push.out \o pull.out
                 /\ mc' = [mc EXCEPT !.pushProbability = "positive",
                                     !.pullPeers = pull.pullPeers]
                 /\ mcStatus' = "running"
                 /\ UNCHANGED mcInQueue
    /\ UNCHANGED <<budget, lastRound>>
    /\ MembershipFrame

\* membershipRound (membership_controller.go:518-525), run by the round
\* ticker of controllerRoutine.
membershipRound ==
    /\ ccStatus = "running"
    /\ mcStatus = "running"
    /\ budget.mc > 0
    /\ budget' = [budget EXCEPT !.mc = @ - 1]
    /\ \E push \in membershipPushRound(mcView, mc.pushProbability),
          pull \in membershipPullRound(mcView),
          update \in membershipUpdateRound(mcView, mc),
          samples \in SampleLists(mc, mc.pushRequests \cup mc.pullReplies) :
         \E probes \in MsgsTo("ProbePeerRequestMSG", DOMAIN samples) :
           IF push.panics \/ pull.panics \/ update.panics
             THEN /\ MembershipPanics(IF push.panics THEN <<>>
                                      ELSE IF pull.panics THEN push.out
                                      ELSE push.out \o pull.out)
                  /\ UNCHANGED <<mcView, mc, lastRound>>
             ELSE /\ msgInQueue' = msgInQueue \o push.out \o pull.out \o update.out \o probes
                  /\ mcView' = update.view
                  /\ mc' = [pushRequests |-> {}, pullReplies |-> {},
                            pullPeers |-> pull.pullPeers, sampleList |-> samples,
                            sampleListRemainingCap |->
                              RemainingCapAfter(mc.sampleListRemainingCap,
                                NewPeerSamplers(mc, mc.pushRequests \cup mc.pullReplies)),
                            pushProbability |-> "positive"]
                  /\ lastRound' = [done |-> TRUE, view |-> mcView,
                                   pushRequests |-> mc.pushRequests,
                                   pullReplies |-> mc.pullReplies,
                                   sampleList |-> DOMAIN mc.sampleList]
                  /\ UNCHANGED <<mcInQueue, mcStatus>>
    /\ MembershipFrame

\* controllerRoutine takes a message of type t from MsgInQueue
\* (membership_controller.go:657-668).
MCTakes(t) ==
    /\ ccStatus = "running"
    /\ mcStatus = "running"
    /\ mcInQueue # <<>>
    /\ Head(mcInQueue).type = t
    /\ UNCHANGED <<budget, lastRound>>
    /\ MembershipFrame

\* removePeer (membership_controller.go:333-357).
removePeer(peer) ==
    /\ mcView' = mcView \ {peer}
    /\ msgInQueue' = IF peer \in mcView
                       THEN Append(msgInQueue, Msg("PeerRemoveMSG", peer, FALSE))
                       ELSE msgInQueue
    /\ mc' = [mc EXCEPT !.sampleList = Remove(@, peer),
                        !.sampleListRemainingCap =
                          IF peer \in DOMAIN mc.sampleList THEN @ + mc.sampleList[peer] ELSE @,
                        !.pushRequests = @ \ {peer},
                        !.pullReplies = @ \ {peer}, !.pullPeers = @ \ {peer}]

\* peerDisconnectedHandler (membership_controller.go:540-548).
peerDisconnectedHandler ==
    /\ MCTakes("PeerDisconnectedMSG")
    /\ mcInQueue' = Tail(mcInQueue)
    /\ removePeer(Head(mcInQueue).id)
    /\ UNCHANGED mcStatus

\* probePeerReplyHandler (membership_controller.go:552-564); flag is the
\* ProbeResult.
probePeerReplyHandler ==
    /\ MCTakes("ProbePeerReplyMSG")
    /\ mcInQueue' = Tail(mcInQueue)
    /\ IF Head(mcInQueue).flag THEN UNCHANGED <<mcView, msgInQueue, mc>>
       ELSE removePeer(Head(mcInQueue).id)
    /\ UNCHANGED mcStatus

\* MembershipPushRequestMSGPayload (membership_controller_message.go:36-48)
\* as the handler sees it: the sender, the age now - When of the request,
\* whether To is this node, the scrypt hash value of the request, and
\* whether the sender's address resolves (Peer.ValidateAddr, peer.go:22-25).
PushRequest(from, age, toSelf, hashVal, addrValid) ==
    [type |-> "MembershipIncomingPushRequestMSG", id |-> from, age |-> age,
     toSelf |-> toSelf, hashVal |-> hashVal, addrValid |-> addrValid]

\* incomingPushRequestHandler (membership_controller.go:567-585).
incomingPushRequestHandler ==
    /\ MCTakes("MembershipIncomingPushRequestMSG")
    /\ mcInQueue' = Tail(mcInQueue)
    /\ LET pr == Head(mcInQueue) IN
       mc' = IF /\ pr.age <= validityDuration
                /\ pr.toSelf
                /\ pr.hashVal <= PoWThreshold
                /\ pr.addrValid
               THEN [mc EXCEPT !.pushRequests = @ \cup {pr.id}]
               ELSE mc
    /\ UNCHANGED <<mcView, msgInQueue, mcStatus>>

\* incomingPullRequestHandler (membership_controller.go:591-606).
incomingPullRequestHandler ==
    /\ MCTakes("MembershipIncomingPullRequestMSG")
    /\ mcInQueue' = Tail(mcInQueue)
    /\ msgInQueue' = Append(msgInQueue,
                            [Msg("MembershipPullReplyMSG", Head(mcInQueue).id, FALSE)
                               EXCEPT !.list = mcView])
    /\ UNCHANGED <<mcView, mc, mcStatus>>

\* incomingPullReplyHandler (membership_controller.go:610-627).
incomingPullReplyHandler ==
    /\ MCTakes("MembershipIncomingPullReplyMSG")
    /\ mcInQueue' = Tail(mcInQueue)
    /\ mc' = IF Head(mcInQueue).id \in mc.pullPeers
               THEN [mc EXCEPT !.pullPeers = @ \ {Head(mcInQueue).id},
                               !.pullReplies = @ \cup Head(mcInQueue).list]
               ELSE mc
    /\ UNCHANGED <<mcView, msgInQueue, mcStatus>>

\* closeHandler of the Membership Controller
\* (membership_controller.go:629-642).
membershipCloseHandler ==
    /\ MCTakes("MembershipCloseMSG")
    /\ mcInQueue' = <<>>
    /\ msgInQueue' = Append(msgInQueue, Msg("MembershipClosedMSG", "none", FALSE))
    /\ mcStatus' = "closed"
    /\ UNCHANGED <<mcView, mc>>

\* The messages the Central Controller sends to the Membership Controller
\* (message.go:1296-1306, 1895-1896, 2227-2228, and the incoming membership
\* messages of the remote peers).
MembershipInputs ==
    {Msg("ProbePeerReplyMSG", q, f) : q \in MembershipPeers, f \in BOOLEAN}
    \cup {PushRequest(q, a, t, h, v) : q \in MembershipPeers, a \in PushAges, t \in BOOLEAN,
                                        h \in PushHashVals, v \in BOOLEAN}
    \cup {Msg(t, q, FALSE) : t \in {"PeerDisconnectedMSG", "MembershipIncomingPullRequestMSG"},
                             q \in MembershipPeers}
    \cup {[Msg("MembershipIncomingPullReplyMSG", q, FALSE) EXCEPT !.list = l] :
             q \in MembershipPeers,
             l \in {{x} : x \in MembershipPeers} \cup {MembershipPeers}}
    \cup {Msg("MembershipCloseMSG", "none", FALSE)}

CentralSendsMembership(m) ==
    /\ ccStatus = "running"
    /\ budget.net > 0
    /\ budget' = [budget EXCEPT !.net = @ - 1]
    /\ Len(mcInQueue) < OutQueueCap
    /\ mcInQueue' = Append(mcInQueue, m)
    /\ UNCHANGED <<msgInQueue, mcStatus, mcView, mc, lastRound>>
    /\ MembershipFrame

InitMC ==
    /\ InitProgram
    /\ budget = [mc |-> MaxMembershipRounds, g |-> 0, net |-> MaxMembershipInputs,
                 rounds |-> 0]

NextMC ==
    \/ bootstrap
    \/ membershipRound
    \/ peerDisconnectedHandler
    \/ probePeerReplyHandler
    \/ incomingPushRequestHandler
    \/ incomingPullRequestHandler
    \/ incomingPullReplyHandler
    \/ membershipCloseHandler
    \/ \E m \in MembershipInputs : CentralSendsMembership(m)

SpecMC == InitMC /\ [][NextMC]_vars

(***************************************************************************)
(* Properties of the Membership Controller (SpecMC).                       *)
(***************************************************************************)
\* C10: on start with the bootstrapper B the Membership Controller makes B
\* its only view member, sends PeerAddMSG for B, and completes one push
\* phase and one pull phase, the pull phase sending a pull request to B.
C10_BootstrapPushesAndPulls ==
    [][(mcStatus = "init" /\ mcStatus' # "init")
         => /\ mcStatus' = "running"
            /\ mcView' = {Bootstrapper}
            /\ msgInQueue' = <<Msg("PeerAddMSG", Bootstrapper, FALSE),
                               Msg("MembershipPullRequestMSG", Bootstrapper, FALSE)>>]_vars

(***************************************************************************)
(* Properties of the Gossiper's rounds (SpecG).                            *)
(***************************************************************************)
\* A step that is a completed gossip round.
RoundDone == budget'.rounds < budget.rounds /\ gStatus' = "running"

C12_ExactlyRetiringItemsMove ==
    [][budget'.rounds < budget.rounds
         => \A i \in DOMAIN gossiper.gossipList :
              Retires(gossiper.gossipList[i]) <=> i \notin DOMAIN gossiper'.gossipList]_vars

(***************************************************************************)
(* The Gossiper with its clients and the remote pushes, without the        *)
(* Central Controller's replies (SpecV): the announcements, registrations, *)
(* validations and incoming pushes of a longer run.                        *)
(***************************************************************************)
InitV ==
    /\ InitProgram
    /\ budget = [mc |-> 0, g |-> MaxValidationInputs, net |-> 0, rounds |-> MaxGossipRounds]

NextV ==
    \/ gossipRound
    \/ announceHandler
    \/ notifyHandler
    \/ validationHandler
    \/ incomingPushHandler
    \/ \E m \in GossipInputs : CentralForwards(m)

SpecV == InitV /\ [][NextV]_vars

\* C13: an item a local client has marked invalid is not in the active
\* cache during the following maxTTL rounds, whatever announcements and
\* incoming pushes of the item arrive.
C13_InvalidStaysInactive ==
    \A i \in DOMAIN invalidated : i \notin DOMAIN gossiper.gossipList

\* C14: a client that registered for the data type before an item is
\* announced is notified of that item exactly once before the item
\* retires.  Every notification sent leaves an entry in the client's
\* validationMap until the client validates it, so for no active item does
\* a client hold more than one entry.
C14_OneNotificationPerItem ==
    \A c \in DOMAIN gossiper.apiClientsToNotify :
        \A i \in DOMAIN gossiper.gossipList :
            Cardinality({id \in DOMAIN gossiper.apiClientsToNotify[c].validationMap :
                           gossiper.apiClientsToNotify[c].validationMap[id] = i}) <= 1

\* C15: handling the same incoming push {item, state, counter} a second
\* time in a round leaves the Gossiper (its incoming batch, its active
\* cache, and with them the outcome of the next update phase) as the first
\* handling left it.
C15_SamePushTwiceIsOnce ==
    \A m \in IncomingPushes :
        AfterIncomingPush(AfterIncomingPush(gossiper, m), m) = AfterIncomingPush(gossiper, m)

\* C15, witness: a push that changed the incoming batch has been handled,
\* and the batch still has room, so that a second delivery of the same push
\* reaches checkAndAddIncomingGossip.
C15_Witness ==
    \E m \in IncomingPushes :
        /\ m.item \in DOMAIN gossiper.incomingGossips
        /\ gossiper.incomingGossips[m.item].state = m.state
        /\ m.state = "B" /\ gossiper.incomingGossips[m.item].counter = m.num
        /\ Cardinality(DOMAIN gossiper.incomingGossips) < cacheSize
        /\ AfterIncomingPush(gossiper, m) = gossiper

(***************************************************************************)
(* Further properties of the Central Controller (Spec).                    *)
(***************************************************************************)
\* C16: the handling of RandomPeerListRequestMSG with Num = n replies with
\* exactly Min(n, |view|) distinct peers, all of them in the view, and
\* increments the usageCounter of each of them by one and of no other peer.
C16_RandomPeerListExact ==
    [][(/\ Handles("RandomPeerListRequestMSG")
        /\ ~state.isStopping
        /\ ccStatus' = "running")
         => /\ Len(gInQueue') = Len(gInQueue) + 1
            /\ LET reply == gInQueue'[Len(gInQueue')] IN
               /\ reply.type = "RandomPeerListReplyMSG"
               /\ reply.list \subseteq DOMAIN viewList
               /\ Cardinality(reply.list)
                    = Min(Head(msgInQueue).num, Cardinality(DOMAIN viewList))
               /\ DOMAIN viewList' = DOMAIN viewList
               /\ \A q \in DOMAIN viewList :
                    viewList'[q] = IF q \in reply.list
                                     THEN [viewList[q] EXCEPT !.usageCounter = @ + 1]
                                     ELSE viewList[q]]_vars

\* C16, witness: a reply with a peer of the view is on its way to the
\* Gossiper and the peer is counted as used.
C16_Witness ==
    \E i \in 1..Len(gInQueue) :
        /\ gInQueue[i].type = "RandomPeerListReplyMSG"
        /\ gInQueue[i].list # {}
        /\ \A q \in gInQueue[i].list : q \in DOMAIN viewList /\ viewList[q].usageCounter = 1


(***************************************************************************)
(* Properties of the Membership Controller's handlers (SpecMC).            *)
(***************************************************************************)

\* A step in which the Membership Controller handles an incoming push request.
HandlesPushRequest ==
    /\ mcStatus = "running" /\ mcInQueue # <<>>
    /\ Head(mcInQueue).type = "MembershipIncomingPushRequestMSG"
    /\ mcInQueue' = Tail(mcInQueue)

\* C17: the originator of an incoming push request enters the accepted-push
\* set if and only if the request's time is within the validity window of now
\* in both directions, it is addressed to this peer, its puzzle hash is at or
\* below the threshold and its from address is valid.
C17_PushAcceptedIffValid ==
    [][HandlesPushRequest =>
         LET pr == Head(mcInQueue)
             valid == /\ pr.age <= validityDuration
                      /\ (0 - pr.age) <= validityDuration
                      /\ pr.toSelf
                      /\ pr.hashVal <= PoWThreshold
                      /\ pr.addrValid
         IN  mc'.pushRequests = IF valid THEN mc.pushRequests \cup {pr.id}
                                ELSE mc.pushRequests]_vars


(***************************************************************************)
(* The peer sampler (membership_controller.go:95-225) on its own: a        *)
(* sampler with any permuter is given candidates one at a time (Next) or   *)
(* as a set (NextSet).                                                     *)
(***************************************************************************)
\* PeerSampler.Next (membership_controller.go:176-199); err is TRUE when
\* the candidate is not taken.
KeepsLargerNext(ps, peer) ==
    LET newPeerPVal == Permute(ps.permuter, peer) IN
    IF ps.peer = "nil" \/ newPeerPVal > ps.peerPVal
      THEN [ps |-> [ps EXCEPT !.peer = peer, !.peerPVal = newPeerPVal], err |-> FALSE]
      ELSE [ps |-> ps, err |-> TRUE]
PeerSamplerNext(ps, peer) ==
    LET newPeerPVal == Permute(ps.permuter, peer) IN
    IF ps.peer = "nil"
      THEN [ps |-> [ps EXCEPT !.peer = peer, !.peerPVal = newPeerPVal], err |-> FALSE]
    ELSE IF newPeerPVal < ps.peerPVal
      THEN [ps |-> [ps EXCEPT !.peer = peer, !.peerPVal = newPeerPVal], err |-> FALSE]
    ELSE [ps |-> ps, err |-> TRUE]

\* PeerSampler.NextSet (membership_controller.go:205-216) for the order in
\* which the range over the set visits its members.
RECURSIVE PeerSamplerNextSet(_, _)
PeerSamplerNextSet(ps, order) ==
    IF order = <<>> THEN [ps |-> ps, err |-> TRUE]
    ELSE LET cur == PeerSamplerNext(ps, Head(order))
             rest == PeerSamplerNextSet(cur.ps, Tail(order))
         IN  [ps |-> rest.ps, err |-> cur.err /\ rest.err]

\* Sample (membership_controller.go:219-225); "nil" stands for Peer{}.
Sample(ps) == ps.peer

\* The orders in which a range over a set of peers can visit it.
Orders(peerSet) ==
    {o \in [1..Cardinality(peerSet) -> peerSet] : \A a, b \in DOMAIN o : o[a] = o[b] => a = b}

PSFrame == UNCHANGED <<ccVars, taskVars, mcStatus, mcView, mcInQueue, mcPending, viewCap, mc,
                       sc, validated, lastRound, handed, gVars, envVars, lastDeleted, cmdLog>>

FeedNext(peer) ==
    /\ Len(fed) < MaxFed
    /\ peerSampler' = PeerSamplerNext(peerSampler, peer).ps
    /\ fed' = Append(fed, peer)
    /\ PSFrame

FeedNextSet(peerSet) ==
    /\ Len(fed) + Cardinality(peerSet) <= MaxFed
    /\ \E order \in Orders(peerSet) :
         /\ peerSampler' = PeerSamplerNextSet(peerSampler, order).ps
         /\ fed' = fed \o order
    /\ PSFrame

InitPS ==
    /\ InitControllers
    /\ peerSampler \in {NewPeerSampler(permuter) : permuter \in Permuters}
    /\ sc = NewSecureConn(TRUE)
    /\ validated = NoValidation
    /\ budget = [mc |-> 0, g |-> 0, net |-> 0, rounds |-> 0]

NextPS ==
    \/ \E peer \in Peers : FeedNext(peer)
    \/ \E peerSet \in SUBSET Peers : FeedNextSet(peerSet)

SpecPS == InitPS /\ [][NextPS]_vars

\* The candidates given to the sampler so far.
Seen == {fed[k] : k \in DOMAIN fed}

\* C18: after any sequence of candidates the sampler holds one current peer,
\* which has the least permuted value of all candidates seen so far, and a
\* further candidate replaces the current peer if and only if its permuted
\* value is strictly smaller.
C18_SamplerKeepsMinimum ==
    /\ fed # <<>> =>
         /\ Sample(peerSampler) \in Seen
         /\ peerSampler.peerPVal = Permute(peerSampler.permuter, Sample(peerSampler))
         /\ \A q \in Seen : peerSampler.peerPVal <= Permute(peerSampler.permuter, q)
    /\ \A k \in 2..Len(fed) :
         LET before == PeerSamplerNextSet(NewPeerSampler(peerSampler.permuter),
                                          SubSeq(fed, 1, k - 1)).ps
             after == PeerSamplerNext(before, fed[k]).ps
         IN  (Sample(after) = fed[k] /\ Sample(before) # fed[k])
               <=> Permute(before.permuter, fed[k]) < before.peerPVal

\* C18: a sampler that was given three candidates and gave up its first peer.
C18_Witness ==
    /\ Len(fed) = MaxFed
    /\ Sample(peerSampler) # fed[1]
    /\ Cardinality(Seen) = MaxFed


\* S, the number of peer samplers the Membership Controller may hold:
\* floor(maxPeers / V^2) (membership_controller.go:250).
sampleListCap ==
    (IF viewCap = ViewListCapOf(SmallMaxPeers) THEN SmallMaxPeers ELSE maxPeers)
      \div (viewCap * viewCap)

\* C19: in every reachable state of the Membership Controller the sample
\* list holds at most S = floor(maxPeers / V^2) peer samplers, whatever the
\* sample refreshes, failed probes and disconnections before.
C19_SampleListBounded ==
    SamplerCount(mc.sampleList) <= sampleListCap

\* C19: a sample refresh filled the sample list with S samplers and a
\* sampled peer was then removed, which freed the capacity of its samplers.
C19_Witness ==
    /\ mc.sampleListRemainingCap > 0
    /\ DOMAIN mc.sampleList # {}
    /\ SamplerCount(mc.sampleList) + mc.sampleListRemainingCap = sampleListCap


(***************************************************************************)
(* Incoming connections (SpecIn): the two listeners accept API clients     *)
(* and remote peers and the Central Controller admits or refuses their     *)
(* endpoints, for the small maxPeers.                                      *)
(***************************************************************************)
InitIn ==
    /\ InitProgram
    /\ viewCap = ViewListCapOf(SmallMaxPeers)
    /\ budget = [mc |-> 0, g |-> 0, net |-> MaxIncoming, rounds |-> 0]

NextIn ==
    \/ apiEndpointCreatedHandler
    \/ incomingP2PCreatedHandler
    \/ \E id \in Clients \cup LateClients : APIAccept(id)
    \/ \E id \in InPeers : P2PAccept(id)

SpecIn == InitIn /\ [][NextIn]_vars

\* The head message reports an endpoint for id that finds its table, of
\* capacity max, full.
CreatedAtCapacity(t, table, max, id) ==
    /\ Handles(t)
    /\ Head(msgInQueue).id = id
    /\ Cardinality(DOMAIN table) >= max

\* What the Central Controller does with a refused endpoint for id: nothing
\* is recorded, no goroutine is started or counted, nothing is sent or
\* dialled again, and the connection is closed.
RefusedStep(id) ==
    /\ incomingViewList' = incomingViewList
    /\ apiClients' = apiClients
    /\ state' = state
    /\ ep'[id].reader = ep[id].reader /\ ep'[id].writer = ep[id].writer
    /\ msgInQueue' = Tail(msgInQueue)
    /\ dialing' = dialing
    /\ (ep[id].reader # "run" /\ ep[id].writer # "run") => ep'[id].conn = "closed"

\* C20: the incoming-peer view never holds more than 2*V connections and the
\* API client table never more than cache_size clients; an endpoint created
\* while its table is at capacity is closed at once, is not recorded, gets
\* no reader or writer, and nothing is retried.
C20_CapacityRefuses ==
    /\ [](/\ Cardinality(DOMAIN incomingViewList) <= 2 * viewCap
          /\ Cardinality(DOMAIN apiClients) <= cacheSize)
    /\ [][\A id \in EndpointIds :
            /\ CreatedAtCapacity("IncomingP2PCreatedMSG", incomingViewList,
                                 incomingViewListMAX, id) => RefusedStep(id)
            /\ CreatedAtCapacity("APIEndpointCreatedMSG", apiClients, cacheSize, id)
                 => RefusedStep(id)]_vars

\* C20: both tables are full, and a peer and a client that came when they
\* were have had their connections closed.
C20_Witness ==
    /\ Cardinality(DOMAIN incomingViewList) = 2 * viewCap
    /\ Cardinality(DOMAIN apiClients) = cacheSize
    /\ \E id \in InPeers : id \notin DOMAIN incomingViewList /\ ep[id].conn = "closed"
    /\ \E id \in Clients \cup LateClients : id \notin DOMAIN apiClients /\ ep[id].conn = "closed"


(***************************************************************************)
(* Properties of the endpoints (SpecClose).                                *)
(***************************************************************************)
\* C21: however often Close() was called on an endpoint, its writer queue
\* was given exactly one CLOSE message and its sigCh was closed exactly
\* once; before the first call neither has happened.
C21_CloseActsOnce ==
    \A id \in EndpointIds :
      /\ ep[id].closeCalls = 0 => ep[id].closeMsgs = 0 /\ ep[id].sigClosed = 0
      /\ ep[id].closeCalls > 0 => ep[id].closeMsgs = 1 /\ ep[id].sigClosed = 1

\* C21: Close() was called a second time on an endpoint.
C21_Witness ==
    \E id \in EndpointIds : ep[id].closeCalls >= 2


(***************************************************************************)
(* The secure connection (src/src/crypto/securecomm): Read and Write run   *)
(* the handshake first (SpecHS).                                           *)
(***************************************************************************)
\* SecureConn.write (secureconn.go:93-101): a message is refused with a
\* messageError when its Data is nil and its Handshake is valid.
write(conn, dataIsNil, handshakeIsValid, isHandshake) ==
    IF ~(~dataIsNil \/ ~handshakeIsValid) THEN [sc |-> conn, err |-> TRUE]
    ELSE [sc |-> IF isHandshake THEN [conn EXCEPT !.hsOut = @ + 1]
                 ELSE [conn EXCEPT !.appOut = @ + 1],
          err |-> FALSE]

\* SecureConn.read (secureconn.go:104-109): data, the named result, is a nil
\* *Message, and gob's Decode refuses to decode into a nil pointer, so read
\* returns an error and takes nothing off the connection.  decodes is
\* whether the pointer handed to Decode is one it can store through.
read(conn, decodes, isHandshake) ==
    IF ~decodes THEN [sc |-> conn, err |-> TRUE]
    ELSE [sc |-> IF isHandshake THEN conn ELSE [conn EXCEPT !.appIn = @ + 1], err |-> FALSE]

\* The trust directory (identity.Parse, parser/identity/identity.go:9-22):
\* the names of its files that are 64 hexadecimal digits, for the keys
\* TrustedKeys; and the value CheckIdentity compares them with
\* (identity_proof.go:117-127), the 32 raw bytes of the SHA-256 of the key.
HexName(key) == <<"hex64", key>>
RawDigest(key) == <<"raw32", key>>
identities == {HexName(k) : k \in TrustedKeys}
CheckIdentity(key) == \E v \in identities : v = RawDigest(key)

\* A remote handshake record as the validation sees it: whether Data is
\* empty, IsClient, isValid() (secureconn.go:50-58), whether Time is within
\* the validity window of now, whether its scrypt hash is at or below the
\* threshold, its RSA key, whether the signature verifies over the SHA3-256
\* of the record, and whether Addr is the local address of the connection.
HandshakeRecords ==
    [dataEmpty : BOOLEAN, isClient : BOOLEAN, isValid : BOOLEAN, fresh : BOOLEAN,
     hashOK : BOOLEAN, key : HandshakeKeys, sigOK : BOOLEAN, addrIsLocal : BOOLEAN]

\* The records that reach a connection in the calls of Read and Write:
\* those of a trusted peer that passes every other check, fresh or stale.
WireRecords ==
    {h \in HandshakeRecords : /\ h.dataEmpty /\ h.isValid /\ h.hashOK /\ h.sigOK
                              /\ h.addrIsLocal /\ h.key \in TrustedKeys}

\* serverHandshakeState.doFullHandshake (handshake_server.go:62-80): the
\* checks of the client's record, TRUE when all pass.
serverValidates(h) ==
    /\ ~(~h.dataEmpty \/ ~h.isClient \/ ~h.isValid)
    /\ h.hashOK
    /\ CheckIdentity(h.key)
    /\ h.addrIsLocal
    /\ h.sigOK

\* clientHandshakeState.doFullHandshake (handshake_client.go:194-211): the
\* checks of the server's record.  VerifyPSS is given the record itself in
\* place of its SHA3-256 digest; the record holds the PKCS1 form of the key
\* and is longer than the 32 bytes of a digest, so VerifyPSS fails.
clientValidates(h) ==
    /\ ~(~h.dataEmpty \/ h.isClient \/ h.isValid)
    /\ h.hashOK
    /\ CheckIdentity(h.key)
    /\ FALSE

\* doFullHandshake, establishKey and handshake of both sides
\* (handshake_client.go:148-212, handshake_server.go:42-112).  The client's
\* ProofOfWork finds a nonce or gives up (powOK); the client writes its
\* record, a valid one with nil Data, and ignores the result of write; the
\* record read is h.
handshakeFn(conn, powOK, decodes, h) ==
    IF conn.isClient
      THEN IF ~powOK THEN [sc |-> conn, err |-> TRUE]
           ELSE LET w == write(conn, TRUE, TRUE, TRUE)
                    r == read(w.sc, decodes, TRUE)
                IN  IF r.err \/ ~clientValidates(h) THEN [sc |-> r.sc, err |-> TRUE]
                    ELSE [sc |-> [r.sc EXCEPT !.masterKey = "set", !.handShakeCompleted = 1],
                          err |-> FALSE]
      ELSE LET r == read(conn, decodes, TRUE) IN
           IF r.err \/ ~serverValidates(h) THEN [sc |-> r.sc, err |-> TRUE]
           ELSE IF ~powOK THEN [sc |-> r.sc, err |-> TRUE]
           ELSE LET w == write(r.sc, FALSE, TRUE, TRUE) IN
                [sc |-> [w.sc EXCEPT !.masterKey = "set", !.handShakeCompleted = 1],
                 err |-> FALSE]

\* SecureConn.Handshake (secureconn.go:119-129).
SkipsHandshake(conn, powOK, decodes, h) == [sc |-> conn, err |-> FALSE]
Handshake(conn, powOK, decodes, h) ==
    IF conn.handShakeCompleted = 1 THEN [sc |-> conn, err |-> FALSE]
    ELSE LET hs == handshakeFn(conn, powOK, decodes, h) IN
         [hs EXCEPT !.sc.hsRuns = @ + 1]

\* SecureConn.Read (securecomm.go:268-289) into a buffer of length len.
SecureRead(conn, len, powOK, decodes, h) ==
    LET hs == Handshake(conn, powOK, decodes, h) IN
    IF hs.err THEN hs
    ELSE IF len = 0 THEN hs
    ELSE read(hs.sc, decodes, FALSE)

\* SecureConn.Write (securecomm.go:292-310).
SecureWrite(conn, powOK, decodes, h) ==
    LET hs == Handshake(conn, powOK, decodes, h) IN
    IF hs.err THEN hs ELSE write(hs.sc, FALSE, FALSE, FALSE)

HSFrame == UNCHANGED <<ccVars, taskVars, mcStatus, mcView, mcInQueue, mcPending, viewCap, mc,
                       peerSampler, fed, lastRound, handed, gVars, envVars, lastDeleted, cmdLog>>

\* What Decode can do with the pointer read hands it (secureconn.go:107).
Decodes == {FALSE}

ReadCall(len, powOK, h) ==
    /\ sc.reads < MaxSecureCalls
    /\ \E decodes \in Decodes :
         LET res == SecureRead(sc, len, powOK, decodes, h) IN
         sc' = [res.sc EXCEPT !.reads = @ + 1,
                              !.failed = IF res.err THEN @ + 1 ELSE @]
    /\ UNCHANGED validated
    /\ HSFrame

WriteCall(powOK, h) ==
    /\ sc.writes < MaxSecureCalls
    /\ \E decodes \in Decodes :
         LET res == SecureWrite(sc, powOK, decodes, h) IN
         sc' = [res.sc EXCEPT !.writes = @ + 1,
                              !.failed = IF res.err THEN @ + 1 ELSE @]
    /\ UNCHANGED validated
    /\ HSFrame

\* A direct call of Handshake (secureconn.go:119-129), as DialWithDialer
\* makes (securecomm.go:204-210).
HandshakeCall(powOK, h) ==
    /\ sc.hsCalls < MaxHandshakeCalls
    /\ \E decodes \in Decodes :
         sc' = [Handshake(sc, powOK, decodes, h).sc EXCEPT !.hsCalls = @ + 1]
    /\ UNCHANGED validated
    /\ HSFrame

\* The checks of doFullHandshake applied to a record h.
Validate(h) ==
    /\ validated' = [side |-> IF sc.isClient THEN "client" ELSE "server", record |-> h,
                     admits |-> IF sc.isClient THEN clientValidates(h)
                                ELSE serverValidates(h)]
    /\ UNCHANGED sc
    /\ HSFrame

InitHS ==
    /\ InitControllers
    /\ peerSampler = NewPeerSampler(CHOOSE f \in Permuters : TRUE)
    /\ sc \in {NewSecureConn(isClient) : isClient \in BOOLEAN}
    /\ validated = NoValidation
    /\ budget = [mc |-> 0, g |-> 0, net |-> 0, rounds |-> 0]

NextHS ==
    \/ \E len \in 0..1, powOK \in BOOLEAN, h \in WireRecords : ReadCall(len, powOK, h)
    \/ \E powOK \in BOOLEAN, h \in WireRecords : WriteCall(powOK, h)
    \/ \E powOK \in BOOLEAN, h \in WireRecords : HandshakeCall(powOK, h)
    \/ \E h \in HandshakeRecords : Validate(h)

SpecHS == InitHS /\ [][NextHS]_vars

\* C22: no encrypted application message is read or written on a connection
\* before its handshake has completed, and every Read or Write on a
\* connection whose handshake has not completed returned the error having
\* transferred no application data.
C22_HandshakeBeforeData ==
    /\ sc.handShakeCompleted = 0 =>
         /\ sc.appIn = 0 /\ sc.appOut = 0
         /\ sc.failed = sc.reads + sc.writes
    /\ sc.handShakeCompleted = 1 => sc.masterKey = "set"

\* C22: Read and Write were both called on a connection whose handshake
\* fails, and returned the error.
C22_Witness ==
    /\ sc.handShakeCompleted = 0
    /\ sc.reads > 0 /\ sc.writes > 0
    /\ sc.failed = sc.reads + sc.writes

(***************************************************************************)
(* Dials and probes under a Membership Controller that issues several      *)
(* commands (SpecDial): the handlers of PeerAddMSG, PeerRemoveMSG,         *)
(* ProbePeerRequestMSG and of the two completion messages, the dial and    *)
(* probe goroutines, and the Gossiper borrowing peers meanwhile.           *)
(***************************************************************************)
\* The peers the Membership Controller names here, and the views it moves to.
DialPeers == {Bootstrapper, "p2"}
DialViews == {new \in NewViews : new \subseteq DialPeers}

InitDial ==
    /\ InitProgram
    /\ budget = [mc |-> MaxDialCmds, g |-> MaxGSteps, net |-> 0, rounds |-> 0]

NextDial ==
    \/ peerAddHandler
    \/ peerRemoveHandler
    \/ outgoingP2PCreatedHandler
    \/ probePeerRequestHandler
    \/ centralProbePeerReplyHandler
    \/ randomPeerListRequestHandler
    \/ randomPeerListReleaseHandler
    \/ \E peer \in DialPeers : DialDone(peer, TRUE) \/ DialDone(peer, FALSE)
    \/ \E peer \in DialPeers : ProbeDone(peer) \/ ProbeFailed(peer)
    \/ MCBootstrap
    \/ MCSend
    \/ \E new \in DialViews \ {mcView} : MCReplaceViewList(new)
    \/ \E peer \in DialPeers : MCProbe(peer)
    \/ MCHandle
    \/ \E n \in 1..MaxNum : GRequest(n)
    \/ GHandle
    \/ GRelease

SpecDial == InitDial /\ [][NextDial]_vars


\* The last command logged for the peer during its dial or probe.
LastCmd(p) == IF cmdLog[p].cmds = <<>> THEN "none" ELSE cmdLog[p].cmds[Len(cmdLog[p].cmds)]

\* The step of outgoingP2PCreatedHandler for the registered peer p.
CreatedStep(p) == cmdLog[p].phase = "dial" /\ cmdLog'[p].phase = "dialed"

\* The step of peerRemoveHandler for the peer p of the view.
RemovedStep(p) ==
    /\ Receives("PeerRemoveMSG")
    /\ Head(msgInQueue).id = p
    /\ p \in DOMAIN viewList
    /\ p \notin DOMAIN awaitingRemovalViewList
    /\ msgInQueue' = Tail(msgInQueue)

RECURSIVE LastOrderOf(_)
LastOrderOf(cmds) ==
    IF cmds = <<>> THEN "none"
    ELSE IF cmds[Len(cmds)] # "probe" THEN cmds[Len(cmds)]
    ELSE LastOrderOf(SubSeq(cmds, 1, Len(cmds) - 1))

\* The step of centralProbePeerReplyHandler for the registered peer p.
ProbedStep(p) == cmdLog[p].phase = "probe" /\ cmdLog'[p].phase = "probed"

\* C25: a PeerAdd(p) taken while p is being probed is never lost: the add
\* flag of p is set exactly when the last of the PeerAdd and PeerRemove
\* messages taken during the probe was a PeerAdd, whatever further
\* ProbePeerRequest(p) arrived meanwhile, and when the probe result is
\* handled with the flag due a PeerAdd(p) is queued, which starts the dial.
C25_PeerAddNeverLost ==
    /\ [](\A p \in DOMAIN activelyProbedPeers :
            activelyProbedPeers[p] <=> LastOrderOf(cmdLog[p].cmds) = "add")
    /\ [][\A p \in Peers :
            ProbedStep(p) /\ LastOrderOf(cmdLog[p].cmds) = "add" /\ ccStatus' = "running" =>
                msgInQueue' = Append(Tail(msgInQueue), Msg("PeerAddMSG", p, FALSE))]_vars


\* SpecDial with the scheduling Go gives: a goroutine that can take a step
\* is eventually scheduled, so some step is taken while one is possible.
SpecDialFair == SpecDial /\ WF_vars(NextDial)

\* A ProbePeerRequest(p) of the Membership Controller is with the Central
\* Controller; a ProbePeerReply(p, result) is with the Membership Controller.
ProbeAsked(p) ==
    \E i \in 1..Len(msgInQueue) : msgInQueue[i] = Msg("ProbePeerRequestMSG", p, FALSE)
ProbeAnswered(p) ==
    \E i \in 1..Len(mcInQueue) :
        mcInQueue[i].type = "ProbePeerReplyMSG" /\ mcInQueue[i].id = p

\* C26: every ProbePeerRequest(p) the Membership Controller has sent is
\* eventually answered by a ProbePeerReply(p, result), whether p is known,
\* the probing dial succeeds or the probing dial fails.
C26_ProbeAlwaysAnswered ==
    \A p \in DialPeers : ProbeAsked(p) ~> ProbeAnswered(p)


(***************************************************************************)
(* The bounded cache of the Gossiper (SpecCache): more items than the      *)
(* cache holds arrive in announces, incoming pushes and pull replies.      *)
(***************************************************************************)
CacheItems == GItems \cup {"z"}

\* The entries of a pull reply: every item once, in state B with counter 1,
\* in one order or the reverse.
PullLists ==
    {[k \in 1..Len(o) |-> [item |-> o[k], state |-> "B", num |-> 1]] :
        o \in {<<"x", "y", "z">>, <<"z", "y", "x">>}}

\* The messages the Central Controller forwards to the Gossiper here; an
\* announced TTL above maxTTL and pushed counters up to bMax are among them.
CacheInputs ==
    {GMsg("GossipAnnounceMSG", i, t, FALSE, "none", {}) : i \in CacheItems, t \in {0, maxTTL + 1}}
    \cup {GMsg("GossipIncomingPushMSG", i, c, FALSE, st, {}) :
            i \in CacheItems, c \in 0..bMax, st \in {"B", "C"}}
    \cup {GMsg("GossipIncomingPullReplyMSG", from, 0, FALSE, "none", list) :
            from \in GossipPeers, list \in PullLists}
    \cup {GMsg("GossipNotifyMSG", "a1", 0, FALSE, "none", {})}
    \cup {GMsg("GossipValidationMSG", "nil", 0, v, "a1", {}) : v \in BOOLEAN}

\* The one peer list the Central Controller lends here.
CacheLists == {{"p1"}}

InitCache ==
    /\ InitProgram
    /\ budget = [mc |-> 0, g |-> MaxCacheInputs, net |-> 0, rounds |-> MaxGossipRounds]

NextCache ==
    \/ gossipRound
    \/ randomPeerListReplyHandler
    \/ announceHandler
    \/ notifyHandler
    \/ validationHandler
    \/ incomingPushHandler
    \/ gossipIncomingPullReplyHandler
    \/ \E m \in CacheInputs : CentralForwards(m)
    \/ \E list \in CacheLists : CentralLendsList(list)
    \/ CentralTakesBack
    \/ gossiperCrashedHandler

SpecCache == InitCache /\ [][NextCache]_vars


(***************************************************************************)
(* Properties of the Gossiper's bounded cache (SpecCache).                 *)
(***************************************************************************)
\* A step of controllerRoutine that takes a message of type t and returns.
GossiperHandles(t) ==
    /\ gStatus = "running" /\ gStatus' = "running"
    /\ gInQueue # <<>>
    /\ Head(gInQueue).type = t
    /\ gInQueue' = Tail(gInQueue)
    /\ budget' = budget

\* C27: an announce with requested TTL t admits the item to the active
\* cache if and only if the cache has room and the item is neither active
\* nor old; the admitted item has state B, counter 1 and TTL maxTTL if
\* t = 0, else the smaller of t and maxTTL, and exactly one request for
\* degree * TTL random peers is sent; otherwise the active cache and the old
\* set are unchanged and no peers are requested.
C27_AnnounceAdmission ==
    [][GossiperHandles("GossipAnnounceMSG") =>
         LET item == Head(gInQueue).item
             t == Head(gInQueue).num
             ttl == IF t = 0 THEN maxTTL ELSE IF t < maxTTL THEN t ELSE maxTTL
             room == Cardinality(DOMAIN gossiper.gossipList) < cacheSize
             known == item \in DOMAIN gossiper.gossipList \cup DOMAIN gossiper.oldGossipList
         IN
         /\ gossiper'.oldGossipList = gossiper.oldGossipList
         /\ IF room /\ ~known
              THEN /\ DOMAIN gossiper'.gossipList = DOMAIN gossiper.gossipList \cup {item}
                   /\ \A i \in DOMAIN gossiper.gossipList :
                        gossiper'.gossipList[i] = gossiper.gossipList[i]
                   /\ gossiper'.gossipList[item].state = "B"
                   /\ gossiper'.gossipList[item].counter = 1
                   /\ gossiper'.gossipList[item].ttl = ttl
                   /\ msgInQueue' = Append(msgInQueue, Request(item, degree * ttl))
              ELSE /\ gossiper'.gossipList = gossiper.gossipList
                   /\ msgInQueue' = msgInQueue]_vars

\* C27 happens: before any round, two announced items fill the active cache
\* and the announce of a third item has been handled.
C27_Witness ==
    /\ budget.rounds = MaxGossipRounds
    /\ budget.g = 0
    /\ gInQueue = <<>>
    /\ gossiper.incomingGossips = EmptyMap
    /\ Cardinality(DOMAIN gossiper.gossipList) = cacheSize
    /\ \A i \in DOMAIN gossiper.gossipList :
         /\ gossiper.gossipList[i].state = "B"
         /\ gossiper.gossipList[i].counter = 1
         /\ gossiper.gossipList[i].ttl = maxTTL


\* The pushes among CacheInputs.
CachePushes == {m \in CacheInputs : m.type = "GossipIncomingPushMSG"}

\* The pair (state, counter) of the entry m is strictly more advanced than
\* that of the stored entry: by state, C above B, then by counter.
MoreAdvanced(m, stored) ==
    \/ stored.state = "B" /\ m.state = "C"
    \/ stored.state = m.state /\ m.num > stored.counter

\* The entry m passes the sanity check: its counter is below bMax or cMax.
Sane(m) == (m.state = "B" /\ m.num < bMax) \/ (m.state = "C" /\ m.num < cMax)

\* What the incoming batch holds for an entry it has stored: the state, the
\* counter of a B entry, and counter 0 for a C entry.
StoredAs(m) == [state |-> m.state, counter |-> IF m.state = "B" THEN m.num ELSE 0]

C29_FullActiveCacheRejects ==
    [][GossiperHandles("GossipIncomingPushMSG") =>
         LET m == Head(gInQueue) IN
         IF ActiveCacheFull(gossiper)
           THEN gossiper'.incomingGossips = gossiper.incomingGossips
           ELSE Sane(m) /\ m.item \notin DOMAIN gossiper.incomingGossips =>
                  m.item \in DOMAIN gossiper'.incomingGossips]_vars

\* C29, amended: an incoming push handled while the incoming batch holds
\* cacheSize entries is rejected and leaves the batch unchanged, and one
\* handled while the batch holds fewer is not rejected for lack of space,
\* however many items the active cache holds.
C29_FullBatchRejects ==
    [][GossiperHandles("GossipIncomingPushMSG") =>
         LET m == Head(gInQueue) IN
         /\ gossiper'.gossipList = gossiper.gossipList
         /\ IF Cardinality(DOMAIN gossiper.incomingGossips) >= cacheSize
              THEN gossiper'.incomingGossips = gossiper.incomingGossips
              ELSE Sane(m) /\ m.item \notin DOMAIN gossiper.incomingGossips =>
                     /\ m.item \in DOMAIN gossiper'.incomingGossips
                     /\ gossiper'.incomingGossips[m.item] = StoredAs(m)]_vars

\* C29 happens: the batch holds cacheSize entries, the active cache is not
\* full, and the next message of the Gossiper is a sane push of a further
\* item, which incomingPushHandler drops.
C29_Witness ==
    /\ gStatus = "running"
    /\ gInQueue # <<>>
    /\ Head(gInQueue) \in CachePushes
    /\ Sane(Head(gInQueue))
    /\ Head(gInQueue).item \notin DOMAIN gossiper.incomingGossips
    /\ Cardinality(DOMAIN gossiper.incomingGossips) = cacheSize
    /\ Cardinality(DOMAIN gossiper.gossipList) < cacheSize
    /\ AfterIncomingPush(gossiper, Head(gInQueue)) = gossiper


\* C30: after any sequence of announces, incoming pushes, pull replies,
\* validations and round ticks, neither the active cache nor the incoming
\* batch of the Gossiper holds more than cacheSize items.
C30_CacheBounded ==
    /\ Cardinality(DOMAIN gossiper.gossipList) <= cacheSize
    /\ Cardinality(DOMAIN gossiper.incomingGossips) <= cacheSize

\* C30 happens: one message, a pull reply that names more items than the
\* cache holds, has been merged and the batch holds cacheSize entries.
C30_Witness ==
    /\ budget.g = MaxCacheInputs - 1
    /\ gInQueue = <<>>
    /\ gossiper.pullPeers = {}
    /\ Cardinality(DOMAIN gossiper.incomingGossips) = cacheSize
    /\ Cardinality(CacheItems) > cacheSize

(***************************************************************************)
(* The rounds of the Membership Controller between which push requests     *)
(* that pass the checks and pull replies arrive, SpecUpd.                  *)
(***************************************************************************)
UpdatePeers == {Bootstrapper, "p2"}
UpdateInputs ==
    {PushRequest(q, validityDuration, TRUE, PoWThreshold, TRUE) : q \in UpdatePeers}
    \cup {[Msg("MembershipIncomingPullReplyMSG", q, FALSE) EXCEPT !.list = l] :
             q \in UpdatePeers, l \in SUBSET UpdatePeers \ {{}}}

InitUpd ==
    /\ InitProgram
    /\ budget = [mc |-> MaxUpdateRounds, g |-> 0, net |-> MaxUpdateInputs, rounds |-> 0]

NextUpd ==
    \/ bootstrap
    \/ membershipRound
    \/ incomingPushRequestHandler
    \/ incomingPullReplyHandler
    \/ \E m \in UpdateInputs : CentralSendsMembership(m)

SpecUpd == InitUpd /\ [][NextUpd]_vars

(***************************************************************************)
(* Properties of the membership round's update phase (SpecUpd).            *)
(***************************************************************************)
\* A step that is a completed membership round.
MembershipRoundDone ==
    /\ mcStatus = "running"
    /\ budget'.mc < budget.mc
    /\ mcStatus' = "running"

\* The update phase of the round had more push requests than alphaSize.
TooManyPushes == Cardinality(mc.pushRequests) > alphaSize(viewCap)

PushAndPullPass ==
    /\ ~PermSlicePanics(Cardinality(mcView), alphaSize(viewCap))
    /\ ~PermSlicePanics(Cardinality(mcView), betaSize(viewCap))

DecodeOutcomes == {"timeout", "error", "message"}

\* One iteration of the loop of readerRoutine (peer.go:196-211, 215-217):
\* after a timeout the reader goes to receive from sigCh; after another
\* error it logs and continues with the next Decode; a push request is
\* forwarded to the Central Controller before the receive from sigCh.
P2PReaderDecode(id, outcome) ==
    /\ ccStatus = "running"
    /\ ep[id].reader = "run"
    /\ ep[id].conn = "ok"
    /\ budget.net > 0
    /\ budget' = [budget EXCEPT !.net = @ - 1]
    /\ outcome = "message" => Len(msgInQueue) < InQueueCap
    /\ msgInQueue' = IF outcome = "message"
                       THEN Append(msgInQueue, Msg("IncomingP2PMSG", id, FALSE))
                       ELSE msgInQueue
    /\ ep' = IF outcome = "error"
               THEN [ep EXCEPT ![id].decodeErrs = Min(@ + 1, MaxDecodeErrs)]
               ELSE [ep EXCEPT ![id].reader = "sig"]
    /\ UNCHANGED <<viewList, awaitingRemovalViewList, activelyCreatedPeers,
                   activelyProbedPeers, incomingViewList, apiClients, state, subs, ccStatus,
                   dialing, probing, listeners, watchdog, mcVars, gVars, sigint, lastDeleted>>

\* The receive from sigCh in "switch { case <-sigCh: done = true }"
\* (peer.go:202-207, 241-246): it blocks until Close() has closed the
\* channel and then yields nil, which is not the switch value true, so the
\* default case runs and the loop goes on with done unset.
P2PReaderSig(id) ==
    /\ ccStatus = "running"
    /\ ep[id].reader = "sig"
    /\ ep[id].sigClosed > 0
    /\ ep' = [ep EXCEPT ![id].reader = "run"]
    /\ UNCHANGED <<ccVars, dialing, probing, listeners, watchdog, mcVars, gVars, envVars,
                   lastDeleted>>

\* incomingP2PHandler (message.go:2172-2195) for a push request.
incomingP2PHandler ==
    /\ Receives("IncomingP2PMSG")
    /\ CanSend(mcInQueue, subs.membershipController)
    /\ msgInQueue' = Tail(msgInQueue)
    /\ IF subs.membershipController
         THEN /\ mcInQueue' = Append(mcInQueue,
                                     Msg("MembershipIncomingPushRequestMSG",
                                         Head(msgInQueue).id, FALSE))
              /\ ccStatus' = ccStatus
         ELSE /\ ccStatus' = "crashed"
              /\ mcInQueue' = mcInQueue
    /\ UNCHANGED <<viewList, awaitingRemovalViewList, activelyCreatedPeers,
                   activelyProbedPeers, incomingViewList, apiClients, state, subs,
                   taskVars, mcStatus, mcView, mcPending, viewCap, mc, peerSampler, fed,
                   sc, validated, lastRound, handed, cmdLog, gVars, envVars, lastDeleted>>

InitRead ==
    /\ InitProgram
    /\ budget = [mc |-> MaxReadCmds, g |-> 0, net |-> MaxReadSteps, rounds |-> 0]

NextRead ==
    \/ peerAddHandler
    \/ peerRemoveHandler
    \/ outgoingP2PCreatedHandler
    \/ p2pEndpointCrashedHandler
    \/ p2pEndpointClosedHandler
    \/ incomingP2PHandler
    \/ \E peer \in DialPeers : DialDone(peer, TRUE) \/ DialDone(peer, FALSE)
    \/ \E id \in DialPeers, outcome \in DecodeOutcomes : P2PReaderDecode(id, outcome)
    \/ \E id \in DialPeers : P2PReaderSig(id) \/ P2PReaderCrash(id) \/ P2PWriterExit(id)
    \/ MCBootstrap
    \/ MCSend
    \/ \E new \in DialViews \ {mcView} : MCReplaceViewList(new)
    \/ MCHandle

SpecRead == InitRead /\ [][NextRead]_vars

(***************************************************************************)
(* Properties of the P2P reader (SpecRead).                                *)
(***************************************************************************)
\* C32: when the decode of a P2P endpoint's reader fails with an error that
\* is not a timeout, the reader sends P2PEndpointClosedMSG with isReader
\* true and terminates, so that it reads no more from the connection.
C32_DecodeErrorEndsReader ==
    [][\A id \in DialPeers :
         ep'[id].decodeErrs > ep[id].decodeErrs
           => /\ ep'[id].reader = "exit"
              /\ msgInQueue' = Append(msgInQueue, PtrMsg("P2PEndpointClosedMSG", id, TRUE))]_vars

(***************************************************************************)
(* Properties of the handshake's executions (SpecHS).                      *)
(***************************************************************************)
\* C33: the handshake procedure is executed exactly once on a connection,
\* however many calls of Read, Write and Handshake are made on it and
\* whether that execution succeeded or failed.
C33_HandshakeRunsOnce ==
    sc.reads + sc.writes + sc.hsCalls > 0 => sc.hsRuns = 1

(***************************************************************************)
(* The two views (SpecMirror): the Membership Controller changes its view  *)
(* several times and asks for probes while the Central Controller dials,   *)
(* probes and closes endpoints, whose goroutines crash or exit.  In        *)
(* SpecMirrorFair every step that can be taken is eventually taken.        *)
(***************************************************************************)
InitMirror ==
    /\ InitProgram
    /\ budget = [mc |-> MaxMirrorCmds, g |-> 0, net |-> MaxNetSteps, rounds |-> 0]

NextMirror ==
    \/ peerAddHandler
    \/ peerRemoveHandler
    \/ outgoingP2PCreatedHandler
    \/ probePeerRequestHandler
    \/ centralProbePeerReplyHandler
    \/ p2pEndpointCrashedHandler
    \/ p2pEndpointClosedHandler
    \/ \E peer \in DialPeers : DialDone(peer, TRUE) \/ DialDone(peer, FALSE)
    \/ \E peer \in DialPeers : ProbeDone(peer) \/ ProbeFailed(peer)
    \/ \E id \in DialPeers : P2PReaderCrash(id) \/ P2PWriterExit(id)
    \/ MCBootstrap
    \/ MCSend
    \/ \E new \in DialViews \ {mcView} : MCReplaceViewList(new)
    \/ \E peer \in DialPeers : MCProbe(peer)
    \/ MCHandle

SpecMirror == InitMirror /\ [][NextMirror]_vars

SpecMirrorFair == SpecMirror /\ WF_vars(NextMirror)

(***************************************************************************)
(* Properties of the two views (SpecMirrorFair).                           *)
(***************************************************************************)
\* The Membership Controller has stopped changing its view, no dial and no
\* probe is in flight, the writer of every closed endpoint has left, and
\* every message sent has been handled.
Settled ==
    /\ ccStatus = "running"
    /\ budget.mc = 0
    /\ mcPending = <<>> /\ mcInQueue = <<>> /\ msgInQueue = <<>>
    /\ dialing = {} /\ probing = EmptyMap
    /\ \A p \in Peers : ep[p].closed => ep[p].writer = "exit"

\* C34: once the Membership Controller has stopped changing its view and
\* the dials, probes and endpoint closures in flight have completed, the
\* peers of the Central Controller's view are those of the Membership
\* Controller's view.
C34_ViewsConverge ==
    <>[](Settled => DOMAIN viewList = mcView)


\* ---------------------------------------------------------------------
\* C35
\* ---------------------------------------------------------------------

\* The records of outgoing peers: those of the view list and those of the
\* awaiting-removal list (message.go:1246-1262 moves a record between them).
OutgoingRecord(p) ==
    IF p \in DOMAIN viewList THEN viewList[p] ELSE awaitingRemovalViewList[p]

\* C35: while the Central Controller runs, the usage counter of every
\* outgoing peer record is never negative and equals the number of lists
\* naming the peer that a RandomPeerListReplyMSG handed to the Gossiper and
\* no RandomPeerListReleaseMSG has returned yet, also after the peer was
\* moved to the awaiting-removal list and after a PeerAddMSG moved its
\* record back into the view.
C35_UsageCounterCountsLentLists ==
    ccStatus = "running" =>
        \A p \in DOMAIN viewList \cup DOMAIN awaitingRemovalViewList :
            /\ OutgoingRecord(p).usageCounter >= 0
            /\ OutgoingRecord(p).usageCounter = handed[p].lists

\* C35 witness: a peer whose record a PeerAddMSG moved back from the
\* awaiting-removal list while one list naming it was still with the
\* Gossiper; the record carries the count of that list.
C35_Witness ==
    /\ ccStatus = "running"
    /\ \E p \in DOMAIN viewList :
          /\ handed[p].promotedBack
          /\ handed[p].lists = 1
          /\ viewList[p].usageCounter = 1


\* ---------------------------------------------------------------------
\* C36
\* ---------------------------------------------------------------------

\* A membership round is started: the running Membership Controller takes
\* a tick of its round ticker (membership_controller.go:436-440).
MembershipRoundStarts ==
    /\ ccStatus = "running"
    /\ mcStatus = "running"
    /\ budget'.mc < budget.mc

\* C36: every membership round that starts runs to completion, whatever the
\* sizes of the view, of the pull replies and of the sample list are: the
\* controller is still running after the round and the round has replaced
\* the round's inputs (push requests and pull replies are emptied).
C36_RoundRunsToCompletion ==
    [][MembershipRoundStarts =>
          /\ mcStatus' = "running"
          /\ lastRound'.done
          /\ mc'.pushRequests = {}
          /\ mc'.pullReplies = {}]_vars


\* ---------------------------------------------------------------------
\* C37
\* ---------------------------------------------------------------------

\* The Central Controller handles the stop of the second half of an API
\* endpoint: apiEndpointClosed deletes the client and goes on to the send
\* of GossipUnnofityMSG to the Gossiper (message.go:1743-1763).
DropsAPIClient ==
    /\ ccStatus = "running"
    /\ msgInQueue # <<>>
    /\ Head(msgInQueue).type \in {"APIEndpointClosedMSG", "APIEndpointCrashedMSG"}
    /\ DOMAIN apiClients' # DOMAIN apiClients

\* C37: the Central Controller never sends to the Membership Controller or
\* to the Gossiper after that controller has acknowledged its closure: a
\* step that puts a message into a controller's queue, and the step of
\* apiEndpointClosed that reaches the send of GossipUnnofityMSG, are taken
\* only while the controller's acknowledgement has not been handled.
C37_NoSendAfterClosedAck ==
    [][/\ Len(mcInQueue') > Len(mcInQueue) => subs.membershipController
       /\ Len(gInQueue') > Len(gInQueue) => subs.gossiper
       /\ DropsAPIClient => subs.gossiper]_vars


\* ---------------------------------------------------------------------
\* C38
\* ---------------------------------------------------------------------

\* The handler the Central Controller is in sends to the Membership
\* Controller and the controller's queue is full: the reply to a probe
\* request for a known peer (message.go:1282-1291) or the forwarded result
\* of a probe (message.go:2119).
CentralBlockedOnMembership ==
    /\ ccStatus = "running"
    /\ ~state.isStopping
    /\ subs.membershipController
    /\ Len(mcInQueue) >= OutQueueCap
    /\ msgInQueue # <<>>
    /\ LET m == Head(msgInQueue) IN
       \/ /\ m.type = "ProbePeerRequestMSG"
          /\ m.id \in DOMAIN viewList \cup DOMAIN awaitingRemovalViewList
                        \cup DOMAIN activelyCreatedPeers
       \/ /\ m.type = "CentralProbePeerReplyMSG"
          /\ m.id \in DOMAIN activelyProbedPeers

\* The Membership Controller is inside a handler or a round that still has
\* messages to send and the Central Controller's queue is full.
MembershipBlockedOnCentral ==
    /\ mcPending # <<>>
    /\ Len(msgInQueue) >= InQueueCap

\* The handler the Central Controller is in sends to the Gossiper and the
\* Gossiper's queue is full: the reply to a request for peers
\* (message.go:1449).
CentralBlockedOnGossiper ==
    /\ ccStatus = "running"
    /\ ~state.isStopping
    /\ subs.gossiper
    /\ Len(gInQueue) >= OutQueueCap
    /\ msgInQueue # <<>>
    /\ Head(msgInQueue).type = "RandomPeerListRequestMSG"

\* The Gossiper has left its loop or is sending its last message into the
\* full queue of the Central Controller.
GossiperBlockedOrGone ==
    \/ gStatus \in {"closed", "crashed"}
    \/ gStatus \in {"closing", "crashing"} /\ Len(msgInQueue) >= InQueueCap

\* C38: with bounded queues the node never deadlocks: in no reachable state
\* is the Central Controller blocked sending into the full queue of a
\* controller while that controller is itself blocked sending to the
\* Central Controller or has terminated.
C38_NoQueueDeadlock ==
    /\ ~(/\ CentralBlockedOnMembership
         /\ MembershipBlockedOnCentral \/ mcStatus \in {"closed", "crashed"})
    /\ ~(CentralBlockedOnGossiper /\ GossiperBlockedOrGone)


\* ---------------------------------------------------------------------
\* C39
\* ---------------------------------------------------------------------

\* C39: in every reachable state of the Central Controller the view list,
\* the awaiting-removal list, the set of peers being created and the set
\* of peers being probed are pairwise disjoint.
C39_PeerSetsDisjoint ==
    LET view == DOMAIN viewList
        removal == DOMAIN awaitingRemovalViewList
        created == DOMAIN activelyCreatedPeers
        probed == DOMAIN activelyProbedPeers
    IN
    /\ view \cap removal = {}
    /\ view \cap created = {}
    /\ view \cap probed = {}
    /\ removal \cap created = {}
    /\ removal \cap probed = {}
    /\ created \cap probed = {}


\* C39 witness: a PeerAddMSG has moved a peer's record from the
\* awaiting-removal list back into the view while another peer is being
\* probed.
C39_Witness ==
    /\ ccStatus = "running"
    /\ \E p \in DOMAIN viewList :
          /\ handed[p].promotedBack
          /\ DOMAIN activelyProbedPeers \ {p} # {}


(***************************************************************************)
(* The Gossiper under every admitted degree (SpecMedian): NewGossiper      *)
(* computes bMax and cMax from the degree, one item is announced by a      *)
(* local client and pushed by remote peers, and the rounds run.            *)
(***************************************************************************)
MedianInputs ==
    {GMsg("GossipAnnounceMSG", "x", 0, FALSE, "none", {})}
    \cup {GMsg("GossipIncomingPushMSG", "x", c, FALSE, st, {}) :
            c \in {0, 1}, st \in {"B", "C"}}

InitMedian ==
    /\ \E d \in 1..MaxDegree :
         /\ InitControllersWith(GossiperWith(d, LogLogNOf(d)))
    /\ peerSampler = NewPeerSampler(CHOOSE f \in Permuters : TRUE)
    /\ sc = NewSecureConn(TRUE)
    /\ validated = NoValidation
    /\ budget = [mc |-> 0, g |-> MaxMedianInputs, net |-> 0, rounds |-> MaxMedianRounds]

NextMedian ==
    \/ gossipRound
    \/ announceHandler
    \/ incomingPushHandler
    \/ \E m \in MedianInputs : CentralForwards(m)

SpecMedian == InitMedian /\ [][NextMedian]_vars

\* C40: after the update phase of every round no active item is in state B
\* with a counter of bMax or more, whatever degree from 1 to 10 the node is
\* configured with, also when bMax is 1.
C40_NoItemAtBMaxInB ==
    [][RoundDone =>
         \A i \in DOMAIN gossiper'.gossipList :
            ~(/\ gossiper'.gossipList[i].state = "B"
              /\ gossiper'.gossipList[i].counter >= gossiper'.mcConfig.bMax)]_vars
====
